---------------------------- MODULE Spec2Model ----------------------------
(***************************************************************************)
(* Verification model of the neo4j bolt driver core: the chunked message   *)
(* transport (src/src/v1/transport.rs) and the packstream codec            *)
(* (src/src/v1/packstream).                                                *)
(*                                                                         *)
(* Byte vectors (Vec<u8>, &[u8]) are held run-length encoded: a sequence   *)
(* of runs <<b, n>> (byte value b repeated n >= 1 times) in which adjacent *)
(* runs carry different byte values.  The encoding is a bijection with     *)
(* plain byte sequences, so equality of two vectors is equality of their   *)
(* encodings; it keeps 65535-byte chunks cheap to explore.                 *)
(***************************************************************************)
EXTENDS Integers, Sequences, FiniteSets, TLC

(***************************************************************************)
(* Byte vectors                                                            *)
(***************************************************************************)

\* Vec::new()
Empty == <<>>

\* vec![b; n]
Rep(b, n) == IF n <= 0 THEN <<>> ELSE << <<b, n>> >>

\* a.extend(b) / a.append(b) / write_all(b) on a Vec<u8>
Cat(a, b) ==
    IF a = <<>> THEN b
    ELSE IF b = <<>> THEN a
    ELSE IF a[Len(a)][1] = b[1][1]
         THEN SubSeq(a, 1, Len(a) - 1)
                \o << <<b[1][1], a[Len(a)][2] + b[1][2]>> >>
                \o Tail(b)
         ELSE a \o b

RECURSIVE BLen(_)
\* v.len()
BLen(s) == IF s = <<>> THEN 0 ELSE s[1][2] + BLen(Tail(s))

RECURSIVE BTake(_, _)
\* &v[0..k]
BTake(s, k) ==
    IF k <= 0 \/ s = <<>> THEN <<>>
    ELSE IF s[1][2] <= k THEN Cat(<<s[1]>>, BTake(Tail(s), k - s[1][2]))
    ELSE << <<s[1][1], k>> >>

RECURSIVE BDrop(_, _)
\* &v[k..]
BDrop(s, k) ==
    IF k <= 0 \/ s = <<>> THEN s
    ELSE IF s[1][2] <= k THEN BDrop(Tail(s), k - s[1][2])
    ELSE << <<s[1][1], s[1][2] - k>> >> \o Tail(s)

RECURSIVE ByteAt(_, _)
\* v[i - 1]  (i counts from 1)
ByteAt(s, i) == IF i <= s[1][2] THEN s[1][1] ELSE ByteAt(Tail(s), i - s[1][2])

RECURSIVE FromSeq(_)
\* vec![b1, b2, ...]
FromSeq(q) == IF q = <<>> THEN <<>> ELSE Cat(Rep(q[1], 1), FromSeq(Tail(q)))

\* WriteBytesExt::write_u16::<BigEndian>
U16BE(n) == FromSeq(<<(n \div 256) % 256, n % 256>>)

\* ReadBytesExt::read_u16::<BigEndian> of the first two bytes of s
ReadU16BE(s) == ByteAt(s, 1) * 256 + ByteAt(s, 2)

(***************************************************************************)
(* Chunked transport: src/src/v1/transport.rs                              *)
(***************************************************************************)

MAX_CHUNK_SIZE == 65535

\* `x as u16`
AsU16(x) == x % 65536

VARIABLES
    output_buffer,  \* ChunkedStream.output_buffer: bytes written, not yet in a chunk
    output_size,    \* ChunkedStream.output_size
    raw,            \* ChunkedStream.raw: chunk bytes built, not yet sent
    stream,         \* the socket: bytes sent and not yet read by the peer
    closed,         \* the sending side of the socket has been shut down
    broken,         \* the socket has failed: every later read or write errors
    rpc,            \* the peer's position inside receive()
    chunk_size,     \* receive(): chunk_size of the chunk being read
    result,         \* receive(): result
    rres,           \* what the last receive() returned: "none", "Ok", "Err"
    last,           \* the call that made the last step, with its arguments
    hist            \* history of the run, read by the properties only

tvars == <<output_buffer, output_size, raw, stream, closed, broken,
           rpc, chunk_size, result, rres, last, hist>>

VARIABLES
    writer,         \* PackstreamEncoder.writer: the bytes encoded so far
    emitted,        \* the emit call that made the last step, and the writer before it
    map,            \* a BTreeMap<String, u32> being filled, entries in key order
    ins,            \* the insert calls made on map, in call order
    value,          \* a packstream Value tree
    sbuf,           \* the bytes serialize(&value) returned
    decoded,        \* what Builder::build returned for sbuf
    eresult,        \* what the last encode call returned: "Ok" or the EncoderError
    source,         \* the bytes of the reader the last decode call read from
    target,         \* the type the last decode call decoded into, and the reader's
                    \* largest read
    outcome         \* the DecodeResult the last decode call returned

evars == <<writer, emitted>>

mvars == <<map, ins>>

vvars == <<value, sbuf, decoded>>

rvars == <<source, target, outcome>>

dvars == <<eresult, rvars>>

cvars == <<evars, mvars, vvars, dvars>>

VARIABLES
    cpc,            \* where the client stands: in connect(), or between the calls
                    \* of a Connection request
    wire,           \* every byte the client's TcpStream has accepted, in order
    agreed_version, \* connect(): the four bytes of buf that read_u32 reads
    request,        \* the Connection request in progress: its name, the encoded
                    \* message and what it returned
    chist           \* history of the connection, read by the properties only

nvars == <<cpc, wire, agreed_version, request, chist>>

vars == <<tvars, cvars, nvars>>

\* flush that frames the buffer even when it is empty
FlushOp_ZeroChunk(st, end_of_message) ==
    LET chunk == Cat(U16BE(AsU16(st.output_size)), st.output_buffer)
        buf == IF end_of_message THEN Cat(chunk, FromSeq(<<0, 0>>)) ELSE chunk
    IN  [output_buffer |-> Empty, output_size |-> 0, raw |-> Cat(st.raw, buf)]

\* ChunkedStream::flush, as a function of the sender's fields
FlushOp(st, end_of_message) ==
    LET chunk == IF BLen(st.output_buffer) > 0
                 THEN Cat(U16BE(AsU16(st.output_size)), st.output_buffer)
                 ELSE Empty
        buf == IF end_of_message THEN Cat(chunk, FromSeq(<<0, 0>>)) ELSE chunk
    IN  IF BLen(buf) > 0
        THEN [output_buffer |-> Empty, output_size |-> 0,
              raw |-> Cat(st.raw, buf)]
        ELSE st

\* write that buffers its input without cutting it at MAX_CHUNK_SIZE
WriteOp_NoSplit(st, b) ==
    [st EXCEPT !.output_buffer = Cat(st.output_buffer, b),
               !.output_size = st.output_size + BLen(b)]

RECURSIVE WriteOp_LateFlush(_, _)
\* write that cuts a chunk only when the buffer would pass MAX_CHUNK_SIZE
WriteOp_LateFlush(st, b) ==
    LET size == BLen(b)
        future_size == st.output_size + size
    IN  IF future_size > MAX_CHUNK_SIZE
        THEN LET end == MAX_CHUNK_SIZE - st.output_size
                 full == [st EXCEPT
                            !.output_buffer = Cat(st.output_buffer, BTake(b, end)),
                            !.output_size = MAX_CHUNK_SIZE]
             IN  WriteOp_LateFlush(FlushOp(full, FALSE), BDrop(b, end))
        ELSE [st EXCEPT
                !.output_buffer = Cat(st.output_buffer, b),
                !.output_size = IF size > 0 THEN future_size ELSE st.output_size]

RECURSIVE WriteOp(_, _)
\* ChunkedStream::write, as a function of the sender's fields
WriteOp(st, b) ==
    LET size == BLen(b)
        future_size == st.output_size + size
    IN  IF future_size >= MAX_CHUNK_SIZE
        THEN LET end == MAX_CHUNK_SIZE - st.output_size
                 full == [st EXCEPT
                            !.output_buffer = Cat(st.output_buffer, BTake(b, end)),
                            !.output_size = MAX_CHUNK_SIZE]
             IN  WriteOp(FlushOp(full, FALSE), BDrop(b, end))
        ELSE [st EXCEPT
                !.output_buffer = Cat(st.output_buffer, b),
                !.output_size = IF size > 0 THEN future_size ELSE st.output_size]

Sender == [output_buffer |-> output_buffer, output_size |-> output_size, raw |-> raw]

\* the inputs of write explored: empty, short, and around MAX_CHUNK_SIZE
Bufs ==
    { Empty,
      FromSeq(<<171>>),
      Rep(7, MAX_CHUNK_SIZE - 1),
      Rep(8, MAX_CHUNK_SIZE),
      Rep(9, MAX_CHUNK_SIZE + 1) }

\* the sender makes at most MaxOps calls, the peer at most MaxRecvs
MaxOps == 4
MaxRecvs == 1
\* one receive() reads at most MaxChunks chunk headers
MaxChunks == 3

\* ChunkedStream::new, and the peer before its first receive()
TInit ==
    /\ output_buffer = Empty
    /\ output_size = 0
    /\ raw = Empty
    /\ stream = Empty
    /\ closed = FALSE
    /\ broken = FALSE
    /\ rpc = "idle"
    /\ chunk_size = 0
    /\ result = Empty
    /\ rres = "none"
    /\ last = [op |-> "new"]
    /\ hist = [msg |-> Empty, msgs |-> <<>>, produced |-> Empty, wire |-> Empty,
               epStart |-> 0, epWrites |-> <<>>, epClosed |-> FALSE,
               nops |-> 0, nchunks |-> 0, nsent |-> 0,
               rxStart |-> 0, rxUsed |-> 0, got |-> Empty, nrecv |-> 0,
               how |-> "none"]

\* the bytes a step appended to raw
Appended(old, new) == BDrop(new, BLen(old))

\* pub fn write(&mut self, buf: &[u8])
Write(buf) ==
    /\ UNCHANGED <<cvars, nvars>>
    /\ hist.nops < MaxOps
    /\ LET st == WriteOp(Sender, buf)
       IN  /\ output_buffer' = st.output_buffer
           /\ output_size' = st.output_size
           /\ raw' = st.raw
           /\ hist' = [hist EXCEPT
                 !.nops = @ + 1,
                 !.msg = Cat(@, buf),
                 !.produced = Cat(@, Appended(raw, st.raw)),
                 !.epStart = IF hist.epClosed THEN BLen(hist.produced) ELSE @,
                 !.epWrites = IF hist.epClosed THEN <<BLen(buf)>>
                              ELSE Append(@, BLen(buf)),
                 !.epClosed = FALSE]
    /\ last' = [op |-> "write", size |-> BLen(buf)]
    /\ UNCHANGED <<stream, closed, broken, rpc, chunk_size, result, rres>>

\* pub fn flush(&mut self, end_of_message: bool)
Flush(end_of_message) ==
    /\ UNCHANGED <<cvars, nvars>>
    /\ hist.nops < MaxOps
    /\ LET st == FlushOp(Sender, end_of_message)
       IN  /\ output_buffer' = st.output_buffer
           /\ output_size' = st.output_size
           /\ raw' = st.raw
           /\ hist' = [hist EXCEPT
                 !.nops = @ + 1,
                 !.msg = IF end_of_message THEN Empty ELSE @,
                 !.msgs = IF end_of_message THEN Append(@, hist.msg) ELSE @,
                 !.produced = Cat(@, Appended(raw, st.raw)),
                 !.epStart = IF hist.epClosed THEN BLen(hist.produced) ELSE @,
                 !.epWrites = IF hist.epClosed THEN <<>> ELSE @,
                 !.epClosed = TRUE]
    /\ last' = [op |-> "flush", eom |-> end_of_message]
    /\ UNCHANGED <<stream, closed, broken, rpc, chunk_size, result, rres>>

\* send that leaves the raw buffer as it is
Send_KeepRaw ==
    /\ UNCHANGED <<cvars, nvars>>
    /\ hist.nops < MaxOps
    /\ ~broken /\ ~closed
    /\ stream' = Cat(stream, raw)
    /\ hist' = [hist EXCEPT !.nops = @ + 1, !.wire = Cat(@, raw),
                            !.nsent = Len(hist.msgs)]
    /\ last' = [op |-> "send", res |-> "Ok"]
    /\ UNCHANGED <<output_buffer, output_size, raw, closed, broken,
                   rpc, chunk_size, result, rres>>

\* pub fn send(&mut self): socket.write_all succeeds
Send ==
    /\ UNCHANGED <<cvars, nvars>>
    /\ hist.nops < MaxOps
    /\ ~broken /\ ~closed
    /\ stream' = Cat(stream, raw)
    /\ raw' = Empty
    /\ hist' = [hist EXCEPT !.nops = @ + 1, !.wire = Cat(@, raw),
                            !.nsent = Len(hist.msgs)]
    /\ last' = [op |-> "send", res |-> "Ok"]
    /\ UNCHANGED <<output_buffer, output_size, closed, broken,
                   rpc, chunk_size, result, rres>>

\* how many bytes write_all may have put on the socket before it failed
Prefixes(n) == {0, n \div 2}

\* pub fn send(&mut self): socket.write_all fails and try! returns the error
SendErr ==
    /\ UNCHANGED <<cvars, nvars>>
    /\ hist.nops < MaxOps
    /\ \E k \in (IF broken \/ closed THEN {0} ELSE Prefixes(BLen(raw))) :
          /\ stream' = Cat(stream, BTake(raw, k))
          /\ hist' = [hist EXCEPT !.nops = @ + 1, !.wire = Cat(@, BTake(raw, k))]
    /\ broken' = TRUE
    /\ last' = [op |-> "send", res |-> "Err"]
    /\ UNCHANGED <<output_buffer, output_size, raw, closed,
                   rpc, chunk_size, result, rres>>

\* the sender's ChunkedStream is dropped: its TcpStream closes, and the peer
\* meets end-of-stream once it has read what was sent
Close ==
    /\ UNCHANGED <<cvars, nvars>>
    /\ ~closed
    /\ closed' = TRUE
    /\ last' = [op |-> "close"]
    /\ UNCHANGED <<output_buffer, output_size, raw, stream, broken,
                   rpc, chunk_size, result, rres, hist>>

\* pub fn receive(&mut self): entry, `let mut result = Vec::new()`
RecvCall ==
    /\ UNCHANGED <<cvars, nvars>>
    /\ rpc \in {"idle", "done"}
    /\ hist.nrecv < MaxRecvs
    /\ rpc' = "hdr"
    /\ result' = Empty
    /\ rres' = "none"
    /\ chunk_size' = 0
    /\ hist' = [hist EXCEPT !.rxStart = hist.rxUsed, !.got = Empty, !.how = "none",
                            !.nchunks = 0]
    /\ last' = [op |-> "receive"]
    /\ UNCHANGED <<output_buffer, output_size, raw, stream, closed, broken>>

\* receive() that treats a failed read of the length prefix like the end of
\* the stream: it breaks out of the loop and returns what it has
RecvHeader_BreakOnError ==
    /\ UNCHANGED <<cvars, nvars>>
    /\ rpc = "hdr"
    /\ hist.nchunks < MaxChunks
    /\ IF broken
       THEN /\ rpc' = "done" /\ rres' = "Ok"
            /\ hist' = [hist EXCEPT !.nrecv = @ + 1, !.how = "err"]
            /\ UNCHANGED <<stream, chunk_size, result>>
       ELSE IF BLen(stream) >= 2
       THEN LET n == ReadU16BE(stream)
            IN  /\ stream' = BDrop(stream, 2)
                /\ chunk_size' = n
                /\ IF n = 0
                   THEN /\ rpc' = "done" /\ rres' = "Ok"
                        /\ hist' = [hist EXCEPT !.rxUsed = @ + 2, !.nchunks = @ + 1,
                                                !.nrecv = @ + 1, !.how = "term"]
                   ELSE /\ rpc' = "body" /\ rres' = rres
                        /\ hist' = [hist EXCEPT !.rxUsed = @ + 2, !.nchunks = @ + 1]
                /\ UNCHANGED result
       ELSE /\ closed
            /\ stream' = Empty
            /\ rpc' = "done" /\ rres' = "Ok"
            /\ hist' = [hist EXCEPT !.rxUsed = @ + BLen(stream),
                                    !.nrecv = @ + 1, !.how = "eof"]
            /\ UNCHANGED <<chunk_size, result>>
    /\ last' = [op |-> "recv_header"]
    /\ UNCHANGED <<output_buffer, output_size, raw, closed, broken>>

\* receive(): `self.socket.read_u16::<BigEndian>()` and the two tests on it
RecvHeader ==
    /\ UNCHANGED <<cvars, nvars>>
    /\ rpc = "hdr"
    /\ hist.nchunks < MaxChunks
    /\ IF broken
       THEN \* Err(byteorder::Error::Io(e)) => return Err(e)
            /\ rpc' = "done" /\ rres' = "Err"
            /\ hist' = [hist EXCEPT !.nrecv = @ + 1, !.how = "err"]
            /\ UNCHANGED <<stream, chunk_size, result>>
       ELSE IF BLen(stream) >= 2
       THEN LET n == ReadU16BE(stream)
            IN  /\ stream' = BDrop(stream, 2)
                /\ chunk_size' = n
                /\ IF n = 0
                   THEN \* if chunk_size == 0 { break }
                        /\ rpc' = "done" /\ rres' = "Ok"
                        /\ hist' = [hist EXCEPT !.rxUsed = @ + 2, !.nchunks = @ + 1,
                                                !.nrecv = @ + 1, !.how = "term"]
                   ELSE /\ rpc' = "body" /\ rres' = rres
                        /\ hist' = [hist EXCEPT !.rxUsed = @ + 2, !.nchunks = @ + 1]
                /\ UNCHANGED result
       ELSE \* Err(byteorder::Error::UnexpectedEOF) => break
            /\ closed
            /\ stream' = Empty
            /\ rpc' = "done" /\ rres' = "Ok"
            /\ hist' = [hist EXCEPT !.rxUsed = @ + BLen(stream),
                                    !.nrecv = @ + 1, !.how = "eof"]
            /\ UNCHANGED <<chunk_size, result>>
    /\ last' = [op |-> "recv_header"]
    /\ UNCHANGED <<output_buffer, output_size, raw, closed, broken>>

\* the byte counts one socket.read(&mut buf) may return for a buffer of n
\* bytes when avail bytes are in the stream (Read::read may return fewer
\* bytes than asked for; it returns 0 only at end-of-stream)
ReadSizes(n, avail) ==
    IF avail = 0 THEN {0}
    ELSE {k \in {1, n - 1, n, avail} : 1 <= k /\ k <= n /\ k <= avail}

\* receive(): `let mut buf = vec![0u8; chunk_size]; try!(self.socket.read(&mut buf));
\* result.append(&mut buf)`
RecvBody ==
    /\ UNCHANGED <<cvars, nvars>>
    /\ rpc = "body"
    /\ IF broken
       THEN /\ rpc' = "done" /\ rres' = "Err"
            /\ hist' = [hist EXCEPT !.nrecv = @ + 1, !.how = "err"]
            /\ UNCHANGED <<stream, result>>
       ELSE /\ BLen(stream) > 0 \/ closed
            /\ \E k \in ReadSizes(chunk_size, BLen(stream)) :
                 LET buf == Cat(BTake(stream, k), Rep(0, chunk_size - k))
                 IN  /\ stream' = BDrop(stream, k)
                     /\ result' = Cat(result, buf)
                     /\ hist' = [hist EXCEPT !.rxUsed = @ + k,
                                             !.got = Cat(@, BTake(stream, k))]
            /\ rpc' = "hdr" /\ rres' = rres
    /\ last' = [op |-> "recv_body"]
    /\ UNCHANGED <<output_buffer, output_size, raw, closed, broken, chunk_size>>

\* the calls of the sending ChunkedStream
SNext ==
    \/ \E buf \in Bufs : Write(buf)
    \/ \E e \in BOOLEAN : Flush(e)
    \/ Send
    \/ SendErr
    \/ Close

\* the sender together with the peer's receive()
TNext ==
    \/ \E buf \in Bufs : Write(buf)
    \/ \E e \in BOOLEAN : Flush(e)
    \/ Send
    \/ SendErr
    \/ Close
    \/ RecvCall
    \/ RecvHeader
    \/ RecvBody

(***************************************************************************)
(* Packstream codec: src/src/v1/packstream                                 *)
(*                                                                         *)
(* A 64-bit machine word (i64, u64, usize) is a tuple of four 16-bit limbs,*)
(* most significant first, holding the two's-complement bit pattern; the   *)
(* signed and the unsigned reading differ in the comparison only.  The     *)
(* encoder's output is run-length encoded like the transport's vectors,    *)
(* with the run lengths held as words, so that bodies of 2^32 items can be *)
(* written.                                                                *)
(***************************************************************************)

\* the word of the integer n, -2^31 < n < 2^31: `n as i64`
W64(n) ==
    <<IF n < 0 THEN 65535 ELSE 0, IF n < 0 THEN 65535 ELSE 0,
      (n \div 65536) % 65536, n % 65536>>

RECURSIVE LexLE(_, _)
\* a <= b on tuples of equal length, first position most significant
LexLE(a, b) ==
    IF a = <<>> THEN TRUE
    ELSE IF a[1] # b[1] THEN a[1] < b[1]
    ELSE LexLE(Tail(a), Tail(b))

\* a <= b on u64 / usize
U64LE(a, b) == LexLE(a, b)

\* a <= b on i64
I64LE(a, b) ==
    LexLE(<<(a[1] + 32768) % 65536, a[2], a[3], a[4]>>,
          <<(b[1] + 32768) % 65536, b[2], b[3], b[4]>>)

\* a + b on usize (wrapping)
U64Add(a, b) ==
    LET s4 == a[4] + b[4]
        s3 == a[3] + b[3] + (s4 \div 65536)
        s2 == a[2] + b[2] + (s3 \div 65536)
        s1 == a[1] + b[1] + (s2 \div 65536)
    IN  <<s1 % 65536, s2 % 65536, s3 % 65536, s4 % 65536>>

\* the two big-endian bytes of a limb
LimbBytes(l) == <<l \div 256, l % 256>>

\* `v as u8`, `v as i8`: the low byte
AsU8(v) == v[4] % 256

\* the bytes write_u16 / write_i16::<BigEndian>(v as u16) writes
BE16(v) == LimbBytes(v[4])

\* the bytes write_u32 / write_i32::<BigEndian>(v as u32) writes
BE32(v) == LimbBytes(v[3]) \o LimbBytes(v[4])

\* the bytes write_u64 / write_i64::<BigEndian>(v) writes
BE64(v) == LimbBytes(v[1]) \o LimbBytes(v[2]) \o LimbBytes(v[3]) \o LimbBytes(v[4])

\* b repeated n times (n a word) as an encoder output
Fill(b, n) == IF n = W64(0) THEN <<>> ELSE << <<b, n>> >>

\* writer.write_all(b) on the encoder's Cursor<Vec<u8>>
Join(a, b) ==
    IF a = <<>> THEN b
    ELSE IF b = <<>> THEN a
    ELSE IF a[Len(a)][1] = b[1][1]
         THEN SubSeq(a, 1, Len(a) - 1)
                \o << <<b[1][1], U64Add(a[Len(a)][2], b[1][2])>> >>
                \o Tail(b)
         ELSE a \o b

RECURSIVE Bytes(_)
\* the encoder output holding the bytes of the sequence q
Bytes(q) == IF q = <<>> THEN <<>> ELSE Join(Fill(q[1], W64(1)), Bytes(Tail(q)))

RECURSIVE Size(_)
\* bytes.len()
Size(w) == IF w = <<>> THEN W64(0) ELSE U64Add(w[1][2], Size(Tail(w)))

RECURSIVE Plain(_)
\* the bytes of a short encoder output, one element per byte
Plain(w) ==
    IF w = <<>> THEN <<>>
    ELSE [i \in 1..w[1][2][4] |-> w[1][1]] \o Plain(Tail(w))

\* marker.rs: Null and Boolean
NULL == 192
TRUE_ == 195
FALSE_ == 194

\* marker.rs: Integer
INT_8 == 200
INT_16 == 201
INT_32 == 202
INT_64 == 203

RANGE_POS_INT_64 == << <<0, 0, 32768, 0>>, <<32767, 65535, 65535, 65535>> >>
RANGE_POS_INT_32 == <<W64(32768), W64(2147483647)>>
RANGE_POS_INT_16 == <<W64(128), W64(32767)>>
RANGE_TINY_INT == <<W64(-16), W64(127)>>
RANGE_NEG_INT_8 == <<W64(-128), W64(-17)>>
RANGE_NEG_INT_16 == <<W64(-32768), W64(-129)>>
RANGE_NEG_INT_32 == << <<65535, 65535, 32768, 0>>, W64(-32769)>>
RANGE_NEG_INT_64 == << <<32768, 0, 0, 0>>, <<65535, 65535, 32767, 65535>> >>

\* marker.rs: Float
FLOAT == 193

\* marker.rs: String
TINY_STRING_NIBBLE == 128
STRING_8 == 208
STRING_16 == 209
STRING_32 == 210
USE_TINY_STRING == W64(15)
USE_STRING_8 == W64(255)
USE_STRING_16 == W64(65535)
USE_STRING_32 == <<0, 0, 65535, 65535>>

\* marker.rs: List
TINY_LIST_NIBBLE == 144
LIST_8 == 212
LIST_16 == 213
LIST_32 == 214
USE_TINY_LIST == W64(15)
USE_LIST_8 == W64(255)
USE_LIST_16 == W64(65535)
USE_LIST_32 == <<0, 0, 65535, 65535>>

\* marker.rs: Map
TINY_MAP_NIBBLE == 160
MAP_8 == 216
MAP_16 == 217
MAP_32 == 218
USE_TINY_MAP == W64(15)
USE_MAP_8 == W64(255)
USE_MAP_16 == W64(65535)
USE_MAP_32 == <<0, 0, 65535, 65535>>

\* marker.rs: Struct
TINY_STRUCT_NIBBLE == 176
STRUCT_8 == 220
STRUCT_16 == 221
USE_TINY_STRUCT == W64(15)
USE_STRUCT_8 == W64(255)
USE_STRUCT_16 == W64(65535)

(***************************************************************************)
(* PackstreamEncoder: src/src/v1/packstream/serialize.rs                   *)
(* Each emit_* operator takes the writer's bytes w and gives them back     *)
(* with what the call wrote appended.                                      *)
(***************************************************************************)

\* writer.write_u8(b)
write_u8(w, b) == Join(w, Bytes(<<b>>))

\* `v >= r.0 && v <= r.1` on i64
InRange(v, r) == I64LE(r[1], v) /\ I64LE(v, r[2])

\* `v >= r.0 as u64 && v <= r.1 as u64` on u64
InRangeU(v, r) == U64LE(r[1], v) /\ U64LE(v, r[2])

\* fn emit_nil
emit_nil(w) == write_u8(w, NULL)

\* fn emit_bool
emit_bool(w, v) == IF v THEN write_u8(w, TRUE_) ELSE write_u8(w, FALSE_)

\* fn emit_u64 (emit_usize, emit_u32, emit_u16, emit_u8 widen and call it)
emit_u64(w, v) ==
    IF InRangeU(v, RANGE_POS_INT_64)
    THEN Join(write_u8(w, INT_64), Bytes(BE64(v)))
    ELSE IF InRangeU(v, RANGE_POS_INT_32)
    THEN Join(write_u8(w, INT_32), Bytes(BE32(v)))
    ELSE IF InRangeU(v, RANGE_POS_INT_16)
    THEN Join(write_u8(w, INT_16), Bytes(BE16(v)))
    ELSE IF U64LE(v, RANGE_TINY_INT[2])
    THEN write_u8(w, AsU8(v))
    ELSE w

\* emit_i64 that sends the whole negative 8-bit range to the 16-bit tier
emit_i64_NoInt8(w, v) ==
    IF InRange(v, RANGE_POS_INT_64) \/ InRange(v, RANGE_NEG_INT_64)
    THEN Join(write_u8(w, INT_64), Bytes(BE64(v)))
    ELSE IF InRange(v, RANGE_POS_INT_32) \/ InRange(v, RANGE_NEG_INT_32)
    THEN Join(write_u8(w, INT_32), Bytes(BE32(v)))
    ELSE IF InRange(v, RANGE_TINY_INT)
    THEN write_u8(w, AsU8(v))
    ELSE Join(write_u8(w, INT_16), Bytes(BE16(v)))

\* fn emit_i64 (emit_isize, emit_i32, emit_i16, emit_i8 widen and call it)
emit_i64(w, v) ==
    IF InRange(v, RANGE_POS_INT_64) \/ InRange(v, RANGE_NEG_INT_64)
    THEN Join(write_u8(w, INT_64), Bytes(BE64(v)))
    ELSE IF InRange(v, RANGE_POS_INT_32) \/ InRange(v, RANGE_NEG_INT_32)
    THEN Join(write_u8(w, INT_32), Bytes(BE32(v)))
    ELSE IF InRange(v, RANGE_POS_INT_16) \/ InRange(v, RANGE_NEG_INT_16)
    THEN Join(write_u8(w, INT_16), Bytes(BE16(v)))
    ELSE IF InRange(v, RANGE_TINY_INT)
    THEN write_u8(w, AsU8(v))
    ELSE IF InRange(v, RANGE_NEG_INT_8)
    THEN write_u8(write_u8(w, INT_8), AsU8(v))
    ELSE w

\* fn emit_str: v is the string's UTF-8 bytes.  The low nibble of every
\* TINY_*_NIBBLE is zero, so `NIBBLE | size as u8` is a sum when size <= 15.
emit_str(w, v) ==
    LET size == Size(v)
    IN  Join(IF U64LE(size, USE_TINY_STRING)
         THEN write_u8(w, TINY_STRING_NIBBLE + AsU8(size))
         ELSE IF U64LE(size, USE_STRING_8)
         THEN write_u8(write_u8(w, STRING_8), AsU8(size))
         ELSE IF U64LE(size, USE_STRING_16)
         THEN Join(write_u8(w, STRING_16), Bytes(BE16(size)))
         ELSE IF U64LE(size, USE_STRING_32)
         THEN Join(write_u8(w, STRING_32), Bytes(BE32(size)))
         ELSE w,
             v)

\* fn emit_seq: f is what the closure f writes through the encoder
emit_seq(w, len, f) ==
    Join(IF U64LE(len, USE_TINY_LIST)
         THEN write_u8(w, TINY_LIST_NIBBLE + AsU8(len))
         ELSE IF U64LE(len, USE_LIST_8)
         THEN write_u8(write_u8(w, LIST_8), AsU8(len))
         ELSE IF U64LE(len, USE_LIST_16)
         THEN Join(write_u8(w, LIST_16), Bytes(BE16(len)))
         ELSE IF U64LE(len, USE_LIST_32)
         THEN Join(write_u8(w, LIST_32), Bytes(BE32(len)))
         ELSE w,
         f)

\* emit_map that counts keys and values in the size field
emit_map_Doubled(w, len, f) ==
    Join(write_u8(w, TINY_MAP_NIBBLE + AsU8(U64Add(len, len))), f)

\* fn emit_map: f is what the closure f writes through the encoder
emit_map(w, len, f) ==
    Join(IF U64LE(len, USE_TINY_MAP)
         THEN write_u8(w, TINY_MAP_NIBBLE + AsU8(len))
         ELSE IF U64LE(len, USE_MAP_8)
         THEN write_u8(write_u8(w, MAP_8), AsU8(len))
         ELSE IF U64LE(len, USE_MAP_16)
         THEN Join(write_u8(w, MAP_16), Bytes(BE16(len)))
         ELSE IF U64LE(len, USE_MAP_32)
         THEN Join(write_u8(w, MAP_32), Bytes(BE32(len)))
         ELSE w,
         f)

\* how many emit calls are made on one writer
MaxEmits == 2

\* how many insert calls are made on the map
MaxInserts == 3

\* i64 arguments: the ends of every range of marker.rs and their neighbours
I64Inputs ==
    { <<32768, 0, 0, 0>>, <<65535, 65535, 32767, 65535>>, <<65535, 65535, 32768, 0>>,
      W64(-65536), W64(-32769), W64(-32768), W64(-129), W64(-128), W64(-17),
      W64(-16), W64(-1), W64(0), W64(1), W64(127), W64(128), W64(255), W64(256),
      W64(32767), W64(32768), W64(65535), W64(65536), W64(2147483647),
      <<0, 0, 32768, 0>>, <<0, 1, 0, 0>>, <<32767, 65535, 65535, 65535>> }

\* sizes (usize) of the strings, lists and maps encoded: the ends of every
\* size tier, and one past the last
SizeInputs ==
    { W64(0), W64(1), W64(15), W64(16), W64(255), W64(256), W64(65535), W64(65536),
      <<0, 0, 65535, 65535>>, <<0, 1, 0, 0>> }

\* str arguments as UTF-8 bytes: "ab" and the strings "aaa..." of every size
StrInputs == {Bytes(<<97, 98>>)} \cup {Fill(97, n) : n \in SizeInputs}

\* stands for the bytes of one key/value pair in the body of a map whose
\* entries are not spelled out: emit_map hands the writer to the closure and
\* does not look at what it wrote
ENTRY == 256

\* pub fn encode: a new PackstreamEncoder over an empty Cursor
EncodeNew ==
    /\ emitted.n > 0
    /\ writer' = <<>>
    /\ emitted' = [op |-> "new", n |-> 0, v |-> W64(0), f |-> <<>>, before |-> <<>>]
    /\ UNCHANGED <<nvars, tvars, mvars, vvars, dvars>>

\* encoder.emit_i64(v)
Emit_i64(v) ==
    /\ emitted.n < MaxEmits
    /\ writer' = emit_i64(writer, v)
    /\ emitted' = [op |-> "emit_i64", n |-> emitted.n + 1, v |-> v, f |-> <<>>,
                   before |-> writer]
    /\ UNCHANGED <<nvars, tvars, mvars, vvars, dvars>>

\* encoder.emit_str(v)
Emit_str(v) ==
    /\ emitted.n < MaxEmits
    /\ writer' = emit_str(writer, v)
    /\ emitted' = [op |-> "emit_str", n |-> emitted.n + 1, v |-> Size(v), f |-> v,
                   before |-> writer]
    /\ UNCHANGED <<nvars, tvars, mvars, vvars, dvars>>

\* encode(&vec![(); len]): emit_seq(len, f) where f encodes every element in
\* turn, each unit by emit_nil
Emit_seq(len) ==
    /\ emitted.n < MaxEmits
    /\ writer' = emit_seq(writer, len, Fill(NULL, len))
    /\ emitted' = [op |-> "emit_seq", n |-> emitted.n + 1, v |-> len,
                   f |-> Fill(NULL, len), before |-> writer]
    /\ UNCHANGED <<nvars, tvars, mvars, vvars, dvars>>

\* encoder.emit_map(len, f) where f writes len key/value pairs
Emit_map(len) ==
    /\ emitted.n < MaxEmits
    /\ writer' = emit_map(writer, len, Fill(ENTRY, len))
    /\ emitted' = [op |-> "emit_map", n |-> emitted.n + 1, v |-> len,
                   f |-> Fill(ENTRY, len), before |-> writer]
    /\ UNCHANGED <<nvars, tvars, mvars, vvars, dvars>>

\* the calls made on a PackstreamEncoder
ENext ==
    \/ EncodeNew
    \/ \E v \in I64Inputs : Emit_i64(v)
    \/ \E v \in StrInputs : Emit_str(v)
    \/ \E len \in SizeInputs : Emit_seq(len)
    \/ \E len \in SizeInputs : Emit_map(len)

RECURSIVE StrLT(_, _)
\* a < b on String: bytewise, a proper prefix first
StrLT(a, b) ==
    IF b = <<>> THEN FALSE
    ELSE IF a = <<>> THEN TRUE
    ELSE IF a[1] # b[1] THEN a[1] < b[1]
    ELSE StrLT(Tail(a), Tail(b))

RECURSIVE BTreeInsert(_, _, _)
\* BTreeMap::insert(k, v): the entries stay in ascending key order, and an
\* entry with an equal key is replaced
BTreeInsert(m, k, v) ==
    IF m = <<>> THEN << <<k, v>> >>
    ELSE IF m[1][1] = k THEN << <<k, v>> >> \o Tail(m)
    ELSE IF StrLT(k, m[1][1]) THEN << <<k, v>> >> \o m
    ELSE <<m[1]>> \o BTreeInsert(Tail(m), k, v)

\* the keys and the values put in the map
MapKeys == {<<>>, <<97>>, <<98>>, <<97, 98>>, <<66>>}
MapVals == {W64(1), W64(200)}

\* map.insert(k, v)
MapInsert(k, v) ==
    /\ Len(ins) < MaxInserts
    /\ map' = BTreeInsert(map, k, v)
    /\ ins' = Append(ins, <<k, v>>)
    /\ emitted' = [op |-> "insert", n |-> 0, v |-> W64(0), f |-> <<>>, before |-> <<>>]
    /\ UNCHANGED <<nvars, tvars, writer, vvars, dvars>>

RECURSIVE EncodeEntries(_, _)
\* Encodable for BTreeMap: the closure handed to emit_map walks the map in
\* iteration order and encodes each key (emit_str) and each value (emit_u32)
EncodeEntries(w, m) ==
    IF m = <<>> THEN w
    ELSE EncodeEntries(emit_u64(emit_str(w, Bytes(m[1][1])), m[1][2]), Tail(m))

\* encode(&map): a new encoder, then Encodable for BTreeMap calls emit_map
EncodeMap ==
    /\ writer' = emit_map(<<>>, W64(Len(map)), EncodeEntries(<<>>, map))
    /\ emitted' = [op |-> "encode_map", n |-> MaxEmits, v |-> W64(Len(map)),
                   f |-> <<>>, before |-> <<>>]
    /\ UNCHANGED <<nvars, tvars, mvars, vvars, dvars>>

\* building a map and encoding it
MNext ==
    \/ \E k \in MapKeys : \E v \in MapVals : MapInsert(k, v)
    \/ EncodeMap

(***************************************************************************)
(* Value: src/src/v1/packstream/value/mod.rs                               *)
(* A Value is a record: t the variant, n its scalar payload (the word of   *)
(* an Integer, the bits of a Float, the UTF-8 bytes of a String, the       *)
(* signature of a Structure), c the items of a List, the fields of a       *)
(* Structure or the values of a Map, k the keys of a Map in ascending      *)
(* order, c[i] being the value of k[i].                                    *)
(***************************************************************************)

\* Value::Null
VNull == [t |-> "Null", n |-> <<>>, k |-> <<>>, c |-> <<>>]

\* Value::Boolean(b)
VBoolean(b) == [t |-> "Boolean", n |-> <<IF b THEN 1 ELSE 0>>, k |-> <<>>, c |-> <<>>]

\* Value::Integer(v)
VInteger(v) == [t |-> "Integer", n |-> v, k |-> <<>>, c |-> <<>>]

\* Value::Float(v), v the 64 bits of the f64
VFloat(v) == [t |-> "Float", n |-> v, k |-> <<>>, c |-> <<>>]

\* Value::String(s), s the UTF-8 bytes
VString(s) == [t |-> "String", n |-> s, k |-> <<>>, c |-> <<>>]

\* Value::List(items)
VList(items) == [t |-> "List", n |-> <<>>, k |-> <<>>, c |-> items]

\* Value::Map(m), m the entries <<key, value>> in ascending key order
VMap(m) ==
    [t |-> "Map", n |-> <<>>, k |-> [i \in 1..Len(m) |-> m[i][1]],
     c |-> [i \in 1..Len(m) |-> m[i][2]]]

\* Value::Structure(signature, fields)
VStructure(signature, fields) ==
    [t |-> "Structure", n |-> <<signature>>, k |-> <<>>, c |-> fields]

(***************************************************************************)
(* Serializer: src/src/v1/packstream/serialize/mod.rs                      *)
(***************************************************************************)

\* fn serialize_bool
serialize_bool(w, v) == IF v THEN write_u8(w, TRUE_) ELSE write_u8(w, FALSE_)

\* fn serialize_i64
serialize_i64(w, v) ==
    IF InRange(v, RANGE_POS_INT_64) \/ InRange(v, RANGE_NEG_INT_64)
    THEN Join(write_u8(w, INT_64), Bytes(BE64(v)))
    ELSE IF InRange(v, RANGE_POS_INT_32) \/ InRange(v, RANGE_NEG_INT_32)
    THEN Join(write_u8(w, INT_32), Bytes(BE32(v)))
    ELSE IF InRange(v, RANGE_POS_INT_16) \/ InRange(v, RANGE_NEG_INT_16)
    THEN Join(write_u8(w, INT_16), Bytes(BE16(v)))
    ELSE IF InRange(v, RANGE_TINY_INT)
    THEN write_u8(w, AsU8(v))
    ELSE IF InRange(v, RANGE_NEG_INT_8)
    THEN write_u8(write_u8(w, INT_8), AsU8(v))
    ELSE w

\* fn serialize_u64 (serialize_u8 widens and calls it)
serialize_u64(w, v) ==
    IF InRangeU(v, RANGE_POS_INT_64)
    THEN Join(write_u8(w, INT_64), Bytes(BE64(v)))
    ELSE IF InRangeU(v, RANGE_POS_INT_32)
    THEN Join(write_u8(w, INT_32), Bytes(BE32(v)))
    ELSE IF InRangeU(v, RANGE_POS_INT_16)
    THEN Join(write_u8(w, INT_16), Bytes(BE16(v)))
    ELSE IF U64LE(v, RANGE_TINY_INT[2])
    THEN write_u8(w, AsU8(v))
    ELSE w

\* fn serialize_f64
serialize_f64(w, v) == Join(write_u8(w, FLOAT), Bytes(BE64(v)))

\* fn serialize_str
serialize_str(w, v) ==
    LET size == Size(v)
    IN  Join(IF U64LE(size, USE_TINY_STRING)
             THEN write_u8(w, TINY_STRING_NIBBLE + AsU8(size))
             ELSE IF U64LE(size, USE_STRING_8)
             THEN write_u8(write_u8(w, STRING_8), AsU8(size))
             ELSE IF U64LE(size, USE_STRING_16)
             THEN Join(write_u8(w, STRING_16), Bytes(BE16(size)))
             ELSE IF U64LE(size, USE_STRING_32)
             THEN Join(write_u8(w, STRING_32), Bytes(BE32(size)))
             ELSE w,
             v)

\* fn serialize_unit
serialize_unit(w) == write_u8(w, NULL)

\* fn serialize_seq(Some(len)): Some(0) writes the same byte as the tiny branch
serialize_seq(w, len) ==
    IF U64LE(len, USE_TINY_LIST)
    THEN write_u8(w, TINY_LIST_NIBBLE + AsU8(len))
    ELSE IF U64LE(len, USE_LIST_8)
    THEN write_u8(write_u8(w, LIST_8), AsU8(len))
    ELSE IF U64LE(len, USE_LIST_16)
    THEN Join(write_u8(w, LIST_16), Bytes(BE16(len)))
    ELSE IF U64LE(len, USE_LIST_32)
    THEN Join(write_u8(w, LIST_32), Bytes(BE32(len)))
    ELSE w

\* fn serialize_map(Some(len))
serialize_map(w, len) ==
    IF U64LE(len, USE_TINY_MAP)
    THEN write_u8(w, TINY_MAP_NIBBLE + AsU8(len))
    ELSE IF U64LE(len, USE_MAP_8)
    THEN write_u8(write_u8(w, MAP_8), AsU8(len))
    ELSE IF U64LE(len, USE_MAP_16)
    THEN Join(write_u8(w, MAP_16), Bytes(BE16(len)))
    ELSE IF U64LE(len, USE_MAP_32)
    THEN Join(write_u8(w, MAP_32), Bytes(BE32(len)))
    ELSE w

RECURSIVE SerializeEach(_, _)
\* serialize_seq_elt for every byte of the slice: u8 serializes by serialize_u8
SerializeEach(w, bytes) ==
    IF bytes = <<>> THEN w
    ELSE SerializeEach(serialize_u64(w, W64(bytes[1])), Tail(bytes))

\* fn serialize_bytes: a list header, then every byte as an integer
serialize_bytes(w, bytes) == SerializeEach(serialize_seq(w, W64(Len(bytes))), bytes)

\* Serialize for Value, Structure arm: the header bytes collected in `cur`
StructureHeader(len, signature) ==
    IF U64LE(len, USE_TINY_STRUCT)
    THEN <<TINY_STRUCT_NIBBLE + AsU8(len), signature>>
    ELSE IF U64LE(len, USE_STRUCT_8)
    THEN <<STRUCT_8, AsU8(len), signature>>
    ELSE <<STRUCT_16>> \o BE16(len) \o <<signature>>

RECURSIVE SerializeValue(_, _)
RECURSIVE SerializeItems(_, _)
RECURSIVE SerializeEntries(_, _, _)

\* impl Serialize for Value
SerializeValue(w, v) ==
    IF v.t = "Null" THEN serialize_unit(w)
    ELSE IF v.t = "Boolean" THEN serialize_bool(w, v.n[1] = 1)
    ELSE IF v.t = "Integer" THEN serialize_i64(w, v.n)
    ELSE IF v.t = "Float" THEN serialize_f64(w, v.n)
    ELSE IF v.t = "String" THEN serialize_str(w, Bytes(v.n))
    ELSE IF v.t = "List"
    THEN SerializeItems(serialize_seq(w, W64(Len(v.c))), v.c)
    ELSE IF v.t = "Map"
    THEN SerializeEntries(serialize_map(w, W64(Len(v.k))), v.k, v.c)
    ELSE SerializeItems(
             serialize_bytes(w, StructureHeader(W64(Len(v.c)), v.n[1])), v.c)

\* the items of a Vec<Value> in order
SerializeItems(w, items) ==
    IF items = <<>> THEN w
    ELSE SerializeItems(SerializeValue(w, items[1]), Tail(items))

\* the entries of a BTreeMap<String, Value> in key order: serialize_map_key,
\* serialize_map_value
SerializeEntries(w, keys, vals) ==
    IF keys = <<>> THEN w
    ELSE SerializeEntries(SerializeValue(serialize_str(w, Bytes(keys[1])), vals[1]),
                          Tail(keys), Tail(vals))

\* pub fn serialize
serialize(v) == SerializeValue(<<>>, v)

(***************************************************************************)
(* Builder: src/src/v1/packstream/value/builder.rs                         *)
(* The reader is a byte slice b; p counts the bytes already consumed.      *)
(***************************************************************************)

\* the reader still holds k bytes
Has(b, p, k) == p + k <= Len(b)

\* the next k bytes of the reader
Take(b, p, k) == SubSeq(b, p + 1, p + k)

\* `x as i8 as i64`, `x as i16 as i64` for the unsigned x of `bits` bits
SignExtend(x, bits) == W64(IF x >= 2 ^ (bits - 1) THEN x - 2 ^ bits ELSE x)

\* a ParserEvent, or the error that came instead of it; p is the reader after it
Event(e, v, size, s, p) == [e |-> e, v |-> v, size |-> size, s |-> s, p |-> p]

\* fn read_int
read_int(b, p, size) ==
    IF ~Has(b, p, size \div 8) THEN Event("UnexpectedEOF", W64(0), 0, 0, p)
    ELSE LET q == Take(b, p, size \div 8)
             ext == IF q[1] >= 128 THEN 65535 ELSE 0
         IN  IF size = 8 THEN Event("Integer", SignExtend(q[1], 8), 0, 0, p + 1)
             ELSE IF size = 16
             THEN Event("Integer", SignExtend(q[1] * 256 + q[2], 16), 0, 0, p + 2)
             ELSE IF size = 32
             THEN Event("Integer", <<ext, ext, q[1] * 256 + q[2], q[3] * 256 + q[4]>>,
                        0, 0, p + 4)
             ELSE Event("Integer", <<q[1] * 256 + q[2], q[3] * 256 + q[4],
                                     q[5] * 256 + q[6], q[7] * 256 + q[8]>>, 0, 0, p + 8)

\* fn read_len: the length, or -1 for UnexpectedEOF
read_len(b, p, size) ==
    IF ~Has(b, p, size \div 8) THEN -1
    ELSE LET q == Take(b, p, size \div 8)
         IN  IF size = 8 THEN q[1]
             ELSE IF size = 16 THEN q[1] * 256 + q[2]
             ELSE ((q[1] * 256 + q[2]) * 256 + q[3]) * 256 + q[4]

\* the event of kind e whose length follows in size \div 8 bytes
Sized(e, b, p, size) ==
    IF read_len(b, p, size) < 0 THEN Event("UnexpectedEOF", W64(0), 0, 0, p)
    ELSE Event(e, W64(0), read_len(b, p, size), 0, p + size \div 8)

\* fn read_next: the marker has been read, p stands behind it
read_next(b, p, marker) ==
    IF marker = NULL THEN Event("Null", W64(0), 0, 0, p)
    ELSE IF marker = TRUE_ THEN Event("True", W64(0), 0, 0, p)
    ELSE IF marker = FALSE_ THEN Event("False", W64(0), 0, 0, p)
    ELSE IF marker <= 127 THEN Event("Integer", W64(marker), 0, 0, p)
    ELSE IF marker >= 240 THEN Event("Integer", SignExtend(marker, 8), 0, 0, p)
    ELSE IF marker = INT_8 THEN read_int(b, p, 8)
    ELSE IF marker = INT_16 THEN read_int(b, p, 16)
    ELSE IF marker = INT_32 THEN read_int(b, p, 32)
    ELSE IF marker = INT_64 THEN read_int(b, p, 64)
    ELSE IF marker = FLOAT
    THEN IF Has(b, p, 8)
         THEN Event("Float", read_int(b, p, 64).v, 0, 0, p + 8)
         ELSE Event("UnexpectedEOF", W64(0), 0, 0, p)
    ELSE IF marker >= 128 /\ marker <= 143 THEN Event("String", W64(0), marker % 16, 0, p)
    ELSE IF marker = STRING_8 THEN Sized("String", b, p, 8)
    ELSE IF marker = STRING_16 THEN Sized("String", b, p, 16)
    ELSE IF marker = STRING_32 THEN Sized("String", b, p, 32)
    ELSE IF marker >= 144 /\ marker <= 159 THEN Event("List", W64(0), marker % 16, 0, p)
    ELSE IF marker = LIST_8 THEN Sized("List", b, p, 8)
    ELSE IF marker = LIST_16 THEN Sized("List", b, p, 16)
    ELSE IF marker = LIST_32 THEN Sized("List", b, p, 32)
    ELSE IF marker >= 160 /\ marker <= 175 THEN Event("Map", W64(0), marker % 16, 0, p)
    ELSE IF marker = MAP_8 THEN Sized("Map", b, p, 8)
    ELSE IF marker = MAP_16 THEN Sized("Map", b, p, 16)
    ELSE IF marker = MAP_32 THEN Sized("Map", b, p, 32)
    ELSE IF marker >= 176 /\ marker <= 191
    THEN IF Has(b, p, 1)
         THEN Event("Struct", W64(0), marker % 16, b[p + 1], p + 1)
         ELSE Event("UnexpectedEOF", W64(0), 0, 0, p)
    ELSE IF marker = STRUCT_8 \/ marker = STRUCT_16
    THEN IF Has(b, p, 1)
         THEN LET ev == Sized("Struct", b, p + 1, IF marker = STRUCT_8 THEN 8 ELSE 16)
              IN  [ev EXCEPT !.s = b[p + 1]]
         ELSE Event("UnexpectedEOF", W64(0), 0, 0, p)
    ELSE Event("Panic", W64(0), 0, 0, p)

RECURSIVE Utf8Valid(_)
\* String::from_utf8 accepts the bytes q
Utf8Valid(q) ==
    LET Cont(i, lo, hi) == Len(q) >= i /\ q[i] >= lo /\ q[i] <= hi
    IN  IF q = <<>> THEN TRUE
        ELSE IF q[1] <= 127 THEN Utf8Valid(Tail(q))
        ELSE IF q[1] >= 194 /\ q[1] <= 223
        THEN Cont(2, 128, 191) /\ Utf8Valid(SubSeq(q, 3, Len(q)))
        ELSE IF q[1] >= 224 /\ q[1] <= 239
        THEN /\ Cont(2, IF q[1] = 224 THEN 160 ELSE 128, IF q[1] = 237 THEN 159 ELSE 191)
             /\ Cont(3, 128, 191)
             /\ Utf8Valid(SubSeq(q, 4, Len(q)))
        ELSE IF q[1] >= 240 /\ q[1] <= 244
        THEN /\ Cont(2, IF q[1] = 240 THEN 144 ELSE 128, IF q[1] = 244 THEN 143 ELSE 191)
             /\ Cont(3, 128, 191) /\ Cont(4, 128, 191)
             /\ Utf8Valid(SubSeq(q, 5, Len(q)))
        ELSE FALSE

\* the smaller of two numbers
Min(x, y) == IF x <= y THEN x ELSE y

\* fn read_string, on a reader that hands out all it has: the bytes stored and
\* the reader after them.  A read that meets the end of the slice leaves the
\* rest of its zeroed buffer as it is.
read_string(b, p, size) ==
    LET avail == Len(b) - p
        whole == IF size < 4096 THEN 0 ELSE Min((size \div 4096) * 4096, avail)
        rest == IF size < 4096 THEN size ELSE size % 4096
        got == Min(rest, avail - whole)
    IN  [store |-> Take(b, p, whole + got) \o [i \in 1..(rest - got) |-> 0],
         p |-> p + whole + got]

\* what parse returns: res is "Ok" or the error, push tells whether a value
\* was pushed on the stack, v is that value, p the reader afterwards
Parsed(res, push, v, p) == [res |-> res, push |-> push, v |-> v, p |-> p]

RECURSIVE parse(_, _)
RECURSIVE ParseItems(_, _, _, _)
RECURSIVE ParseEntries(_, _, _, _, _, _)

\* parse, List and Struct arms: `for _ in 0..size { parse; pop; values.push }`
ParseItems(b, p, size, values) ==
    IF size = 0 THEN [res |-> "Ok", values |-> values, p |-> p]
    ELSE LET r == parse(b, p)
         IN  IF r.res # "Ok" THEN [res |-> r.res, values |-> <<>>, p |-> r.p]
             ELSE IF ~r.push THEN [res |-> "UnexpectedEOF", values |-> <<>>, p |-> r.p]
             ELSE ParseItems(b, r.p, size - 1, Append(values, r.v))

\* parse, Map arm: `for i in 1..(size + 1)` with size already doubled;
\* cur_val is the Option as a sequence of at most one value
ParseEntries(b, p, i, size, cur_val, values) ==
    IF i > size THEN [res |-> "Ok", values |-> values, p |-> p]
    ELSE LET r == parse(b, p)
         IN  IF r.res # "Ok" THEN [res |-> r.res, values |-> <<>>, p |-> r.p]
             ELSE IF ~r.push THEN [res |-> "UnexpectedEOF", values |-> <<>>, p |-> r.p]
             ELSE IF i % 2 = 0 /\ r.v.t = "String"
             THEN IF cur_val = <<>>
                  THEN [res |-> "UnexpectedInput", values |-> <<>>, p |-> r.p]
                  ELSE ParseEntries(b, r.p, i + 1, size, <<>>,
                                    BTreeInsert(values, r.v.n, cur_val[1]))
             ELSE IF i % 2 = 0
             THEN [res |-> "UnexpectedInput", values |-> <<>>, p |-> r.p]
             ELSE ParseEntries(b, r.p, i + 1, size, <<r.v>>, values)

\* pub fn parse
parse(b, p) ==
    IF ~Has(b, p, 1) THEN Parsed("Ok", FALSE, VNull, p)
    ELSE LET ev == read_next(b, p + 1, b[p + 1])
         IN  IF ev.e = "Null" THEN Parsed("Ok", TRUE, VNull, ev.p)
             ELSE IF ev.e = "True" THEN Parsed("Ok", TRUE, VBoolean(TRUE), ev.p)
             ELSE IF ev.e = "False" THEN Parsed("Ok", TRUE, VBoolean(FALSE), ev.p)
             ELSE IF ev.e = "Integer" THEN Parsed("Ok", TRUE, VInteger(ev.v), ev.p)
             ELSE IF ev.e = "Float" THEN Parsed("Ok", TRUE, VFloat(ev.v), ev.p)
             ELSE IF ev.e = "String"
             THEN LET r == read_string(b, ev.p, ev.size)
                  IN  IF Utf8Valid(r.store)
                      THEN Parsed("Ok", TRUE, VString(r.store), r.p)
                      ELSE Parsed("InvalidUTF8", FALSE, VNull, r.p)
             ELSE IF ev.e = "List"
             THEN LET r == ParseItems(b, ev.p, ev.size, <<>>)
                  IN  IF r.res = "Ok" THEN Parsed("Ok", TRUE, VList(r.values), r.p)
                      ELSE Parsed(r.res, FALSE, VNull, r.p)
             ELSE IF ev.e = "Map"
             THEN LET r == ParseEntries(b, ev.p, 1, ev.size * 2, <<>>, <<>>)
                  IN  IF r.res = "Ok" THEN Parsed("Ok", TRUE, VMap(r.values), r.p)
                      ELSE Parsed(r.res, FALSE, VNull, r.p)
             ELSE IF ev.e = "Struct"
             THEN LET r == ParseItems(b, ev.p, ev.size, <<>>)
                  IN  IF r.res = "Ok"
                      THEN Parsed("Ok", TRUE, VStructure(ev.s, r.values), r.p)
                      ELSE Parsed(r.res, FALSE, VNull, r.p)
             ELSE Parsed(ev.e, FALSE, VNull, ev.p)

\* pub fn build: `try!(self.parse()); Ok(self.stack.pop().unwrap_or(Value::Null))`
build(b) ==
    LET r == parse(b, 0)
    IN  IF r.res = "Ok" THEN [res |-> "Ok", v |-> r.v] ELSE [res |-> r.res, v |-> VNull]

\* how deep the Value trees are nested, and how many items a tree's root holds
MaxDepth == 2
MaxItems == 2

\* the values without items: every scalar variant, a two-byte character, and
\* the empty List, Map and Structure
Leaves ==
    { VNull, VBoolean(TRUE), VBoolean(FALSE),
      VInteger(W64(1)), VInteger(W64(-17)), VInteger(W64(128)),
      VInteger(<<32768, 0, 0, 0>>), VFloat(<<16376, 0, 0, 0>>),
      VString(<<>>), VString(<<97>>), VString(<<195, 169>>),
      VList(<<>>), VMap(<<>>), VStructure(1, <<>>) }

\* the values added to a List or a Map that exists
Items == {VNull, VInteger(W64(1)), VString(<<98>>)}

\* the keys of the maps
Keys == {<<97>>, <<98>>}

RECURSIVE Depth(_)
RECURSIVE DepthOfItems(_)
\* nesting depth: 0 for a scalar, 1 for an empty container
Depth(v) == IF v.t \in {"List", "Map", "Structure"} THEN 1 + DepthOfItems(v.c) ELSE 0

\* the largest depth among items
DepthOfItems(items) ==
    IF items = <<>> THEN 0
    ELSE LET d == Depth(items[1])
             e == DepthOfItems(Tail(items))
         IN  IF d >= e THEN d ELSE e

\* the entries <<key, value>> of a Value::Map
Entries(v) == [i \in 1..Len(v.k) |-> <<v.k[i], v.c[i]>>]

\* value becomes v; what was serialized and decoded before is forgotten
SetValue(v) ==
    /\ value' = v
    /\ sbuf' = <<>>
    /\ decoded' = [res |-> "none", v |-> VNull]
    /\ UNCHANGED <<nvars, tvars, evars, mvars, dvars>>

\* let value = <a leaf>
NewValue(v) == v \in Leaves /\ SetValue(v)

\* Value::List(vec![value])
ListOf == Depth(value) < MaxDepth /\ SetValue(VList(<<value>>))

\* list.push(v)
ListPush(v) ==
    /\ value.t = "List" /\ Len(value.c) < MaxItems
    /\ SetValue(VList(Append(value.c, v)))

\* a Value::Map holding value under key k
MapOf(k) == Depth(value) < MaxDepth /\ SetValue(VMap(<< <<k, value>> >>))

\* map.insert(k, v)
MapPut(k, v) ==
    /\ value.t = "Map" /\ Len(value.c) < MaxItems
    /\ SetValue(VMap(BTreeInsert(Entries(value), k, v)))

\* Value::Structure(signature, vec![value])
StructureOf(signature) ==
    Depth(value) < MaxDepth /\ SetValue(VStructure(signature, <<value>>))

\* let bytes = serialize(&value)
Serialize ==
    /\ sbuf = <<>>
    /\ sbuf' = Plain(serialize(value))
    /\ UNCHANGED <<nvars, tvars, evars, mvars, value, decoded, dvars>>

\* Builder::new(&mut &bytes[..]).build()
Build ==
    /\ sbuf # <<>> /\ decoded.res = "none"
    /\ decoded' = build(sbuf)
    /\ UNCHANGED <<nvars, tvars, evars, mvars, value, sbuf, dvars>>

\* making a Value tree, serializing it, building a Value from the bytes
VNext ==
    \/ \E v \in Leaves : NewValue(v)
    \/ ListOf
    \/ \E v \in Items : ListPush(v)
    \/ \E k \in Keys : MapOf(k)
    \/ \E k \in Keys : \E v \in Items : MapPut(k, v)
    \/ \E s \in {1, 112} : StructureOf(s)
    \/ Serialize
    \/ Build

(***************************************************************************)
(* Structures and client messages:                                         *)
(* src/src/v1/packstream/serialize.rs, src/src/v1/protocol/client.rs       *)
(***************************************************************************)

\* packstream/mod.rs: "__STRUCTURE__"
STRUCTURE_PREFIX == <<95, 95, 83, 84, 82, 85, 67, 84, 85, 82, 69, 95, 95>>

\* name.starts_with(prefix)
starts_with(name, prefix) ==
    /\ Len(name) >= Len(prefix)
    /\ SubSeq(name, 1, Len(prefix)) = prefix

\* what an emit call gives back: its Result and the writer after it
Emitted(res, w) == [res |-> res, w |-> w]

\* emit_struct that leaves the signature byte out of the tiny header
emit_struct_NoTag(w, name, len, f) ==
    IF starts_with(name, STRUCTURE_PREFIX)
    THEN IF U64LE(len, USE_TINY_STRUCT)
         THEN Emitted("Ok", Join(write_u8(w, TINY_STRUCT_NIBBLE + AsU8(len)), f))
         ELSE Emitted("InvalidStructureLength", w)
    ELSE Emitted("Ok", emit_map(w, len, f))

\* fn emit_struct: name is the struct's name as bytes, f is what the closure f
\* writes through the encoder
emit_struct(w, name, len, f) ==
    IF starts_with(name, STRUCTURE_PREFIX)
    THEN LET signature == name[Len(name)]
         IN  IF U64LE(len, USE_TINY_STRUCT)
             THEN Emitted("Ok",
                    Join(write_u8(write_u8(w, TINY_STRUCT_NIBBLE + AsU8(len)),
                                  signature), f))
             ELSE IF U64LE(len, USE_STRUCT_8)
             THEN Emitted("Ok",
                    Join(write_u8(write_u8(write_u8(w, STRUCT_8), signature),
                                  AsU8(len)), f))
             ELSE IF U64LE(len, USE_STRUCT_16)
             THEN Emitted("Ok",
                    Join(Join(write_u8(write_u8(w, STRUCT_16), signature),
                              Bytes(BE16(len))), f))
             ELSE Emitted("InvalidStructureLength", w)
    ELSE Emitted("Ok", emit_map(w, len, f))

\* client.rs: the structure names and sizes of the client messages
INIT_SIZE == W64(1)
INIT_SIG == STRUCTURE_PREFIX \o <<1>>
RUN_SIZE == W64(2)
RUN_SIG == STRUCTURE_PREFIX \o <<16>>
DISCARD_ALL_SIZE == W64(0)
DISCARD_ALL_SIG == STRUCTURE_PREFIX \o <<47>>
PULL_ALL_SIZE == W64(0)
PULL_ALL_SIG == STRUCTURE_PREFIX \o <<63>>
ACK_FAILURE_SIZE == W64(0)
ACK_FAILURE_SIG == STRUCTURE_PREFIX \o <<15>>

\* "MyClient/1.0"
MyClient == <<77, 121, 67, 108, 105, 101, 110, 116, 47, 49, 46, 48>>

\* "RETURN 1 AS num"
ReturnOne == <<82, 69, 84, 85, 82, 78, 32, 49, 32, 65, 83, 32, 110, 117, 109>>

\* the client names given to Init::new
ClientNames == {Bytes(MyClient), <<>>, Fill(97, W64(16))}

\* the statements given to Run::new
Statements == {Bytes(ReturnOne), <<>>, Fill(97, W64(256))}

\* value::to_value(&param) of a u32 parameter: Value::Integer(param as i64)
to_value(v) == v

RECURSIVE EncodeParams(_, _)
\* Encodable for BTreeMap<String, Value>: each key by emit_str, each
\* Value::Integer by emit_i64
EncodeParams(w, m) ==
    IF m = <<>> THEN w
    ELSE EncodeParams(emit_i64(emit_str(w, Bytes(m[1][1])), m[1][2]), Tail(m))

\* Encodable for Init
InitEncode(w, client_name) ==
    LET r == emit_struct(w, INIT_SIG, INIT_SIZE, <<>>)
    IN  IF r.res # "Ok" THEN r ELSE Emitted("Ok", emit_str(r.w, client_name))

\* Encodable for Run
RunEncode(w, statement, parameters) ==
    LET r == emit_struct(w, RUN_SIG, RUN_SIZE, <<>>)
    IN  IF r.res # "Ok" THEN r
        ELSE Emitted("Ok",
               emit_map(emit_str(r.w, statement), W64(Len(parameters)),
                        EncodeParams(<<>>, parameters)))

\* encode(&Init::new(client_name))
EncodeInit(client_name) ==
    /\ writer' = InitEncode(<<>>, client_name).w
    /\ eresult' = InitEncode(<<>>, client_name).res
    /\ emitted' = [op |-> "Init", n |-> MaxEmits, v |-> INIT_SIZE,
                   f |-> client_name, before |-> <<>>]
    /\ UNCHANGED <<nvars, tvars, mvars, vvars, rvars>>

\* how many add_param calls are made on one Run
MaxParams == 2

\* Run::add_param(name, param)
AddParam(k, v) ==
    /\ Len(ins) < MaxParams
    /\ map' = BTreeInsert(map, k, to_value(v))
    /\ ins' = Append(ins, <<k, v>>)
    /\ emitted' = [op |-> "add_param", n |-> 0, v |-> W64(0), f |-> <<>>,
                   before |-> <<>>]
    /\ UNCHANGED <<nvars, tvars, writer, vvars, dvars>>

\* encode(&run) for a Run with the given statement and the parameters added
EncodeRun(statement) ==
    /\ writer' = RunEncode(<<>>, statement, map).w
    /\ eresult' = RunEncode(<<>>, statement, map).res
    /\ emitted' = [op |-> "Run", n |-> MaxEmits, v |-> RUN_SIZE,
                   f |-> statement, before |-> <<>>]
    /\ UNCHANGED <<nvars, tvars, mvars, vvars, rvars>>

\* encode(&DiscardAll)
EncodeDiscardAll ==
    /\ writer' = emit_struct(<<>>, DISCARD_ALL_SIG, DISCARD_ALL_SIZE, <<>>).w
    /\ eresult' = emit_struct(<<>>, DISCARD_ALL_SIG, DISCARD_ALL_SIZE, <<>>).res
    /\ emitted' = [op |-> "DiscardAll", n |-> MaxEmits, v |-> DISCARD_ALL_SIZE,
                   f |-> <<>>, before |-> <<>>]
    /\ UNCHANGED <<nvars, tvars, mvars, vvars, rvars>>

\* encode(&PullAll)
EncodePullAll ==
    /\ writer' = emit_struct(<<>>, PULL_ALL_SIG, PULL_ALL_SIZE, <<>>).w
    /\ eresult' = emit_struct(<<>>, PULL_ALL_SIG, PULL_ALL_SIZE, <<>>).res
    /\ emitted' = [op |-> "PullAll", n |-> MaxEmits, v |-> PULL_ALL_SIZE,
                   f |-> <<>>, before |-> <<>>]
    /\ UNCHANGED <<nvars, tvars, mvars, vvars, rvars>>

\* encode(&AckFailure)
EncodeAckFailure ==
    /\ writer' = emit_struct(<<>>, ACK_FAILURE_SIG, ACK_FAILURE_SIZE, <<>>).w
    /\ eresult' = emit_struct(<<>>, ACK_FAILURE_SIG, ACK_FAILURE_SIZE, <<>>).res
    /\ emitted' = [op |-> "AckFailure", n |-> MaxEmits, v |-> ACK_FAILURE_SIZE,
                   f |-> <<>>, before |-> <<>>]
    /\ UNCHANGED <<nvars, tvars, mvars, vvars, rvars>>

\* building and encoding client messages
KNext ==
    \/ \E name \in ClientNames : EncodeInit(name)
    \/ \E k \in MapKeys : \E v \in MapVals : AddParam(k, v)
    \/ \E s \in Statements : EncodeRun(s)
    \/ EncodeDiscardAll
    \/ EncodePullAll
    \/ EncodeAckFailure

\* the struct names given to emit_struct: three structure signatures and the
\* plain struct name "Point"
StructNames ==
    {STRUCTURE_PREFIX \o <<1>>, STRUCTURE_PREFIX \o <<16>>, STRUCTURE_PREFIX \o <<127>>,
     <<80, 111, 105, 110, 116>>}

\* signatures of the Value::Structure values serialized
Signatures == {1, 16, 127}

\* field counts (usize): the ends of every structure size tier, and one past
\* the last
StructSizes ==
    { W64(0), W64(1), W64(15), W64(16), W64(255), W64(256), W64(65535), W64(65536) }

\* chars encoded: 'A', DEL, U+0080, U+00E9, U+0100, U+07FF, U+0800, U+20AC,
\* U+FFFF, U+10000, U+1F600, U+10FFFF
CharInputs ==
    {65, 127, 128, 233, 256, 2047, 2048, 8364, 65535, 65536, 128512, 1114111}

\* char::encode_utf8 / String::push: the UTF-8 bytes of the code point c
Utf8(c) ==
    IF c < 128 THEN <<c>>
    ELSE IF c < 2048 THEN <<192 + (c \div 64), 128 + (c % 64)>>
    ELSE IF c < 65536
    THEN <<224 + (c \div 4096), 128 + ((c \div 64) % 64), 128 + (c % 64)>>
    ELSE <<240 + (c \div 262144), 128 + ((c \div 4096) % 64),
           128 + ((c \div 64) % 64), 128 + (c % 64)>>

\* emit_char that writes the char as the string made of it
emit_char_AsStr(w, v) == emit_str(w, Bytes(Utf8(v)))

\* fn emit_char: `v as u8` keeps the low 8 bits of the code point
emit_char(w, v) == write_u8(write_u8(w, TINY_STRING_NIBBLE + 1), v % 256)

\* Serializer::serialize_char
serialize_char(w, v) == serialize_str(w, Bytes(Utf8(v)))

\* Serializer::serialize_struct called with the structure identifier: the
\* Result and the writer after it
serialize_struct(w, len) ==
    IF U64LE(len, USE_TINY_STRUCT)
    THEN Emitted("Ok", write_u8(w, TINY_STRUCT_NIBBLE + AsU8(len)))
    ELSE IF U64LE(len, USE_STRUCT_8)
    THEN Emitted("Ok", write_u8(write_u8(w, STRUCT_8), AsU8(len)))
    ELSE IF U64LE(len, USE_STRUCT_16)
    THEN Emitted("Ok", Join(write_u8(w, STRUCT_16), Bytes(BE16(len))))
    ELSE Emitted("InvalidStructureLength", w)

\* Serialize for Value::Structure(signature, vec![Value::Null; len]): the
\* header through serialize_bytes, then every field by serialize_unit; no
\* branch returns an error
SerializeStructure(w, signature, len) ==
    Emitted("Ok", Join(serialize_bytes(w, StructureHeader(len, signature)),
                       Fill(NULL, len)))

\* encoder.emit_struct(name, len, f) where f encodes len unit fields
Emit_struct(name, len) ==
    /\ emitted.n < MaxEmits
    /\ writer' = emit_struct(writer, name, len, Fill(NULL, len)).w
    /\ eresult' = emit_struct(writer, name, len, Fill(NULL, len)).res
    /\ emitted' = [op |-> "emit_struct", n |-> emitted.n + 1, v |-> len,
                   f |-> name, before |-> writer]
    /\ UNCHANGED <<nvars, tvars, mvars, vvars, rvars>>

\* serializer.serialize_struct(STRUCTURE_IDENTIFIER, len)
Serialize_struct(len) ==
    /\ emitted.n < MaxEmits
    /\ writer' = serialize_struct(writer, len).w
    /\ eresult' = serialize_struct(writer, len).res
    /\ emitted' = [op |-> "serialize_struct", n |-> emitted.n + 1, v |-> len,
                   f |-> <<>>, before |-> writer]
    /\ UNCHANGED <<nvars, tvars, mvars, vvars, rvars>>

\* Value::Structure(signature, vec![Value::Null; len]).serialize(serializer)
Serialize_Structure(signature, len) ==
    /\ emitted.n < MaxEmits
    /\ writer' = SerializeStructure(writer, signature, len).w
    /\ eresult' = SerializeStructure(writer, signature, len).res
    /\ emitted' = [op |-> "Value::Structure", n |-> emitted.n + 1, v |-> len,
                   f |-> <<signature>>, before |-> writer]
    /\ UNCHANGED <<nvars, tvars, mvars, vvars, rvars>>

\* encoder.emit_char(v)
Emit_char(v) ==
    /\ emitted.n < MaxEmits
    /\ writer' = emit_char(writer, v)
    /\ eresult' = "Ok"
    /\ emitted' = [op |-> "emit_char", n |-> emitted.n + 1, v |-> W64(v),
                   f |-> Utf8(v), before |-> writer]
    /\ UNCHANGED <<nvars, tvars, mvars, vvars, rvars>>

\* serializer.serialize_char(v)
Serialize_char(v) ==
    /\ emitted.n < MaxEmits
    /\ writer' = serialize_char(writer, v)
    /\ eresult' = "Ok"
    /\ emitted' = [op |-> "serialize_char", n |-> emitted.n + 1, v |-> W64(v),
                   f |-> Utf8(v), before |-> writer]
    /\ UNCHANGED <<nvars, tvars, mvars, vvars, rvars>>

\* a new encoder over an empty Cursor, after an encode call returned
EncodeAgain ==
    /\ emitted.n > 0
    /\ writer' = <<>>
    /\ eresult' = "Ok"
    /\ emitted' = [op |-> "new", n |-> 0, v |-> W64(0), f |-> <<>>, before |-> <<>>]
    /\ UNCHANGED <<nvars, tvars, mvars, vvars, rvars>>

\* the structure and char calls made on the encoders
XNext ==
    \/ EncodeAgain
    \/ \E name \in StructNames : \E len \in StructSizes : Emit_struct(name, len)
    \/ \E len \in StructSizes : Serialize_struct(len)
    \/ \E s \in Signatures : \E len \in StructSizes : Serialize_Structure(s, len)
    \/ \E v \in CharInputs : Emit_char(v)
    \/ \E v \in CharInputs : Serialize_char(v)

(***************************************************************************)
(* PackstreamDecoder: src/src/v1/packstream/deserialize.rs                 *)
(* The reader is a byte slice b; p counts the bytes already consumed.  A   *)
(* single reader.read(buf) call hands out at most `chunk` bytes; the       *)
(* byteorder reads (read_u8, read_u16, ...) read until their buffer is     *)
(* full or the input has ended.                                            *)
(***************************************************************************)

\* marker.rs: the high nibble of the negative tiny integers
TINY_INT_NEG_NIBBLE == 240

\* a DecodeResult<T>: res is "Ok" or the DecoderError variant, v the value of
\* an Ok, exp and got the two strings of the error, p the reader afterwards
DecodeResult(res, v, p, exp, got) ==
    [res |-> res, v |-> v, p |-> p, exp |-> exp, got |-> got]

\* Ok(v)
DecodeOk(v, p) == DecodeResult("Ok", v, p, "", "")

\* Err(DecErr::UnexpectedEOF), through From<byteorder::Error>
DecodeEOF(b) == DecodeResult("UnexpectedEOF", <<>>, Len(b), "", "")

\* fn is_tiny_int_pos
is_tiny_int_pos(b) == b \div 128 = 0

\* fn is_tiny_int_neg
is_tiny_int_neg(b) == b \div 16 = TINY_INT_NEG_NIBBLE \div 16

\* fn is_tiny_int
is_tiny_int(b) == is_tiny_int_pos(b) \/ is_tiny_int_neg(b)

\* fn read_tiny_int, widened to i64: `int | 0b1111_0000` sets the high nibble
read_tiny_int(int) ==
    IF is_tiny_int_pos(int) THEN SignExtend(int, 8)
    ELSE SignExtend(240 + (int % 16), 8)

\* fn is_tiny_string, is_tiny_list, is_tiny_map, is_tiny_structure
is_tiny_string(b) == b \div 16 = TINY_STRING_NIBBLE \div 16
is_tiny_list(b) == b \div 16 = TINY_LIST_NIBBLE \div 16
is_tiny_map(b) == b \div 16 = TINY_MAP_NIBBLE \div 16
is_tiny_structure(b) == b \div 16 = TINY_STRUCT_NIBBLE \div 16

\* fn is_int8_or_lesser .. is_int64_or_lesser
is_int8_or_lesser(b) == b = INT_8 \/ is_tiny_int(b)
is_int16_or_lesser(b) == b = INT_16 \/ is_int8_or_lesser(b)
is_int32_or_lesser(b) == b = INT_32 \/ is_int16_or_lesser(b)
is_int64_or_lesser(b) == b = INT_64 \/ is_int32_or_lesser(b)

\* fn is_string, is_map, is_structure
is_string(b) == is_tiny_string(b) \/ b = STRING_8 \/ b = STRING_16 \/ b = STRING_32
is_map(b) == is_tiny_map(b) \/ b = MAP_8 \/ b = MAP_16 \/ b = MAP_32
is_structure(b) == is_tiny_structure(b) \/ b = STRUCT_8 \/ b = STRUCT_16

\* format!("0x{:02X}", byte)
Hex(byte) ==
    LET d == <<"0", "1", "2", "3", "4", "5", "6", "7",
               "8", "9", "A", "B", "C", "D", "E", "F">>
    IN  "0x" \o d[(byte \div 16) + 1] \o d[(byte % 16) + 1]

\* pub fn which, with the unwrap_or of wrong_marker!: the name of the marker,
\* or the byte in hex when it is no marker
which(byte) ==
    IF byte = NULL THEN "NULL"
    ELSE IF byte = TRUE_ THEN "TRUE"
    ELSE IF byte = FALSE_ THEN "FALSE"
    ELSE IF is_tiny_int(byte) THEN "TINY_INT"
    ELSE IF byte = INT_8 THEN "INT_8"
    ELSE IF byte = INT_16 THEN "INT_16"
    ELSE IF byte = INT_32 THEN "INT_32"
    ELSE IF byte = INT_64 THEN "INT_64"
    ELSE IF byte = FLOAT THEN "FLOAT"
    ELSE IF is_tiny_string(byte) THEN "TINY_STRING"
    ELSE IF byte = STRING_8 THEN "STRING_8"
    ELSE IF byte = STRING_16 THEN "STRING_16"
    ELSE IF byte = STRING_32 THEN "STRING_32"
    ELSE IF is_tiny_list(byte) THEN "TINY_LIST"
    ELSE IF byte = LIST_8 THEN "LIST_8"
    ELSE IF byte = LIST_16 THEN "LIST_16"
    ELSE IF byte = LIST_32 THEN "LIST_32"
    ELSE IF is_tiny_map(byte) THEN "TINY_MAP"
    ELSE IF byte = MAP_8 THEN "MAP_8"
    ELSE IF byte = MAP_16 THEN "MAP_16"
    ELSE IF byte = MAP_32 THEN "MAP_32"
    ELSE IF is_tiny_structure(byte) THEN "TINY_STRUCT"
    ELSE IF byte = STRUCT_8 THEN "STRUCT_8"
    ELSE IF byte = STRUCT_16 THEN "STRUCT_16"
    ELSE Hex(byte)

\* macro wrong_marker!
wrong_marker(expected, marker, p) ==
    DecodeResult("UnexpectedMarker", <<>>, p, expected, which(marker))

\* macro wrong_input!
wrong_input(expected, got, p) == DecodeResult("UnexpectedInput", <<>>, p, expected, got)

\* reader.read_i8 / read_i16 / read_i32 / read_i64::<BigEndian>, widened to i64
ReadSigned(b, p, bits) ==
    LET ev == read_int(b, p, bits)
    IN  IF ev.e = "Integer" THEN DecodeOk(ev.v, ev.p) ELSE DecodeEOF(b)

\* the if-chain of read_i64 / read_i32 / read_i16 / read_i8 behind the marker
\* check: the tiny form, the INT markers narrower than `bits`, and in the last
\* else the read of `bits` bits
ReadMarked(b, p, marker, bits) ==
    IF is_tiny_int(marker) THEN DecodeOk(read_tiny_int(marker), p)
    ELSE IF marker = INT_8 /\ bits > 8 THEN ReadSigned(b, p, 8)
    ELSE IF marker = INT_16 /\ bits > 16 THEN ReadSigned(b, p, 16)
    ELSE IF marker = INT_32 /\ bits > 32 THEN ReadSigned(b, p, 32)
    ELSE ReadSigned(b, p, bits)

\* read_i32 that reads the value of any INT marker as a 32-bit number
read_i32_AnyMarker(b, p) ==
    IF ~Has(b, p, 1) THEN DecodeEOF(b)
    ELSE ReadMarked(b, p + 1, b[p + 1], 32)

\* fn read_i64
read_i64(b, p) ==
    IF ~Has(b, p, 1) THEN DecodeEOF(b)
    ELSE IF ~is_int64_or_lesser(b[p + 1]) THEN wrong_marker("INT_64", b[p + 1], p + 1)
    ELSE ReadMarked(b, p + 1, b[p + 1], 64)

\* fn read_i32
read_i32(b, p) ==
    IF ~Has(b, p, 1) THEN DecodeEOF(b)
    ELSE IF ~is_int32_or_lesser(b[p + 1]) THEN wrong_marker("INT_32", b[p + 1], p + 1)
    ELSE ReadMarked(b, p + 1, b[p + 1], 32)

\* fn read_i16
read_i16(b, p) ==
    IF ~Has(b, p, 1) THEN DecodeEOF(b)
    ELSE IF ~is_int16_or_lesser(b[p + 1]) THEN wrong_marker("INT_16", b[p + 1], p + 1)
    ELSE ReadMarked(b, p + 1, b[p + 1], 16)

\* fn read_i8
read_i8(b, p) ==
    IF ~Has(b, p, 1) THEN DecodeEOF(b)
    ELSE IF ~is_int8_or_lesser(b[p + 1]) THEN wrong_marker("INT_8", b[p + 1], p + 1)
    ELSE ReadMarked(b, p + 1, b[p + 1], 8)

\* `value < 0` on the signed value read
Negative(v) == v[1] >= 32768

\* read_u64 that hands a negative value on as it is (`value as u64`)
read_u64_Wrapping(b, p) == read_i64(b, p)

\* fn read_u64
read_u64(b, p) ==
    LET r == read_i64(b, p)
    IN  IF r.res # "Ok" THEN r
        ELSE IF Negative(r.v) THEN wrong_input("+INT_64", "-INTEGER", r.p)
        ELSE r

\* fn read_u32
read_u32(b, p) ==
    LET r == read_i32(b, p)
    IN  IF r.res # "Ok" THEN r
        ELSE IF Negative(r.v) THEN wrong_input("+INT_32", "-INTEGER", r.p)
        ELSE r

\* fn read_u16
read_u16(b, p) ==
    LET r == read_i16(b, p)
    IN  IF r.res # "Ok" THEN r
        ELSE IF Negative(r.v) THEN wrong_input("+INT_16", "-INTEGER", r.p)
        ELSE r

\* fn read_u8
read_u8(b, p) ==
    LET r == read_i8(b, p)
    IN  IF r.res # "Ok" THEN r
        ELSE IF Negative(r.v) THEN wrong_input("+INT_8", "-INTEGER", r.p)
        ELSE r

\* fn read_nil
read_nil(b, p) ==
    IF ~Has(b, p, 1) THEN DecodeEOF(b)
    ELSE IF b[p + 1] # NULL THEN wrong_marker("NULL", b[p + 1], p + 1)
    ELSE DecodeOk(<<>>, p + 1)

\* fn read_bool
read_bool(b, p) ==
    IF ~Has(b, p, 1) THEN DecodeEOF(b)
    ELSE IF b[p + 1] = TRUE_ THEN DecodeOk(<<1>>, p + 1)
    ELSE IF b[p + 1] = FALSE_ THEN DecodeOk(<<0>>, p + 1)
    ELSE wrong_marker("BOOLEAN", b[p + 1], p + 1)

\* fn read_f64: the value is the eight bytes as a word
read_f64(b, p) ==
    IF ~Has(b, p, 1) THEN DecodeEOF(b)
    ELSE IF b[p + 1] # FLOAT THEN wrong_marker("FLOAT", b[p + 1], p + 1)
    ELSE ReadSigned(b, p + 1, 64)

\* the reader hands out everything it has in one read call
WholeReads == 1048576

\* the integer encodings decoded: every tier with its extreme values, inputs
\* that end inside the value, and every single byte
IntSources ==
    {<<m>> : m \in 0..255}
    \cup {<<INT_8, x>> : x \in {0, 1, 127, 128, 239, 240, 255}}
    \cup {<<INT_16>> \o x : x \in {<<0, 1>>, <<0, 200>>, <<127, 255>>, <<128, 0>>,
                                 <<255, 127>>, <<255, 255>>, <<0>>}}
    \cup {<<INT_32>> \o x : x \in {<<0, 0, 0, 1>>, <<0, 0, 128, 0>>, <<127, 255, 255, 255>>,
                                 <<128, 0, 0, 0>>, <<255, 255, 255, 255>>, <<0, 0, 0>>}}
    \cup {<<INT_64>> \o x : x \in {<<0, 0, 0, 0, 0, 0, 0, 1>>,
                                 <<0, 0, 0, 0, 128, 0, 0, 0>>,
                                 <<127, 255, 255, 255, 255, 255, 255, 255>>,
                                 <<128, 0, 0, 0, 0, 0, 0, 0>>,
                                 <<255, 255, 255, 255, 255, 255, 255, 255>>,
                                 <<0, 0, 0, 0>>}}

\* pub fn decode::<T, R>(source) returned r: T is named by t, the source held
\* the bytes `input` and handed out at most `chunk` bytes per read call
Decoding(t, chunk, input, r) ==
    /\ source' = input
    /\ target' = [t |-> t, chunk |-> chunk]
    /\ outcome' = r
    /\ UNCHANGED <<nvars, tvars, evars, mvars, vvars, eresult>>

\* the caller has taken the result; the next decode call makes a new
\* PackstreamDecoder over a new source
DecodeNew ==
    /\ outcome.res # "none"
    /\ source' = <<>>
    /\ target' = [t |-> "none", chunk |-> 0]
    /\ outcome' = DecodeResult("none", <<>>, 0, "", "")
    /\ UNCHANGED <<nvars, tvars, evars, mvars, vvars, eresult>>

\* decode::<i64, _>; as every decode call it meets a decoder that has given no
\* result yet
Decode_i64 ==
    /\ outcome.res = "none"
    /\ \E input \in IntSources :
          Decoding("i64", WholeReads, input, read_i64(input, 0))

\* decode::<i32, _>
Decode_i32 ==
    /\ outcome.res = "none"
    /\ \E input \in IntSources :
          Decoding("i32", WholeReads, input, read_i32(input, 0))

\* decode::<i16, _>
Decode_i16 ==
    /\ outcome.res = "none"
    /\ \E input \in IntSources :
          Decoding("i16", WholeReads, input, read_i16(input, 0))

\* decode::<i8, _>
Decode_i8 ==
    /\ outcome.res = "none"
    /\ \E input \in IntSources :
          Decoding("i8", WholeReads, input, read_i8(input, 0))

\* decode::<u64, _>
Decode_u64 ==
    /\ outcome.res = "none"
    /\ \E input \in IntSources :
          Decoding("u64", WholeReads, input, read_u64(input, 0))

\* decode::<u32, _>
Decode_u32 ==
    /\ outcome.res = "none"
    /\ \E input \in IntSources :
          Decoding("u32", WholeReads, input, read_u32(input, 0))

\* decode::<u16, _>
Decode_u16 ==
    /\ outcome.res = "none"
    /\ \E input \in IntSources :
          Decoding("u16", WholeReads, input, read_u16(input, 0))

\* decode::<u8, _>
Decode_u8 ==
    /\ outcome.res = "none"
    /\ \E input \in IntSources :
          Decoding("u8", WholeReads, input, read_u8(input, 0))

\* one reader.read(buf) call with a buffer of n bytes: how many bytes it
\* hands out
ReadCount(b, p, n, chunk) == Min(Min(n, chunk), Len(b) - p)

RECURSIVE ReadLoops(_, _, _, _, _)
\* read_string_data, `for _ in 0..loops`: each turn reads into the 4096-byte
\* buffer once and extends the store by the bytes that read returned
ReadLoops(b, p, loops, chunk, store) ==
    IF loops = 0 THEN [store |-> store, p |-> p]
    ELSE LET bytes == ReadCount(b, p, 4096, chunk)
         IN  ReadLoops(b, p + bytes, loops - 1, chunk, store \o Take(b, p, bytes))

\* a buffer of n bytes after one read call into it: the bytes that were
\* read, and the zeros the buffer was made of behind them
ReadOnce(b, p, n, chunk) ==
    LET bytes == ReadCount(b, p, n, chunk)
    IN  [store |-> Take(b, p, bytes) \o [i \in 1..(n - bytes) |-> 0], p |-> p + bytes]

\* fn read_string_data, behind the size: the store handed to String::from_utf8.
\* `(size as f32 / 4096.0).floor()` is size \div 4096 for the sizes below 2^24.
ReadStore(b, p, size, chunk) ==
    IF size < 4096 THEN ReadOnce(b, p, size, chunk)
    ELSE LET l == ReadLoops(b, p, size \div 4096, chunk, <<>>)
             t == ReadOnce(b, l.p, size % 4096, chunk)
         IN  IF size % 4096 > 0 THEN [store |-> l.store \o t.store, p |-> t.p]
             ELSE l

\* String::from_utf8(store) is Ok: bytes below 0x80 are each a character
from_utf8(store) == (\A i \in 1..Len(store) : store[i] <= 127) \/ Utf8Valid(store)

\* read_string_data that fills the store by read calls until `size` bytes are
\* there, and fails when the input ends before
read_string_data_Exact(b, p, marker, chunk) ==
    LET bits == IF marker = STRING_8 THEN 8 ELSE IF marker = STRING_16 THEN 16 ELSE 32
        size == IF is_tiny_string(marker) THEN marker % 16 ELSE read_len(b, p, bits)
        q == IF is_tiny_string(marker) THEN p ELSE p + bits \div 8
    IN  IF ~is_string(marker) THEN wrong_marker("STRING", marker, p)
        ELSE IF size < 0 \/ ~Has(b, q, size) THEN DecodeEOF(b)
        ELSE IF from_utf8(Take(b, q, size)) THEN DecodeOk(Take(b, q, size), q + size)
        ELSE DecodeResult("InvalidUTF8", <<>>, q + size, "", "")

\* fn read_string_data: the marker has been read, p stands behind it
read_string_data(b, p, marker, chunk) ==
    LET bits == IF marker = STRING_8 THEN 8 ELSE IF marker = STRING_16 THEN 16 ELSE 32
        size == IF is_tiny_string(marker) THEN marker % 16 ELSE read_len(b, p, bits)
        q == IF is_tiny_string(marker) THEN p ELSE p + bits \div 8
    IN  IF ~is_string(marker) THEN wrong_marker("STRING", marker, p)
        ELSE IF size < 0 THEN DecodeEOF(b)
        ELSE LET r == ReadStore(b, q, size, chunk)
             IN  IF from_utf8(r.store) THEN DecodeOk(r.store, r.p)
                 ELSE DecodeResult("InvalidUTF8", <<>>, r.p, "", "")

\* fn read_str
read_str(b, p, chunk) ==
    IF ~Has(b, p, 1) THEN DecodeEOF(b)
    ELSE IF ~is_string(b[p + 1]) THEN wrong_marker("STRING", b[p + 1], p + 1)
    ELSE read_string_data(b, p + 1, b[p + 1], chunk)

\* n times the byte 'a'
Letters(n) == [i \in 1..n |-> 97]

\* the string encodings decoded: "", "abc" and "é" in every size tier, strings
\* of 4096 and 4097 bytes, a byte that is no UTF-8, inputs that end inside
\* the size or inside the string, and every single byte
StrSources ==
    {<<m>> : m \in 0..255}
    \cup {<<TINY_STRING_NIBBLE + 3, 97, 98, 99>>, <<STRING_8, 3, 97, 98, 99>>,
          <<STRING_16, 0, 3, 97, 98, 99>>, <<STRING_32, 0, 0, 0, 3, 97, 98, 99>>,
          <<STRING_8, 0>>, <<STRING_16, 0, 0>>, <<STRING_32, 0, 0, 0, 0>>,
          <<TINY_STRING_NIBBLE + 2, 195, 169>>, <<STRING_8, 2, 195, 169>>,
          <<TINY_STRING_NIBBLE + 1, 255>>,
          <<TINY_STRING_NIBBLE + 3, 97>>, <<STRING_8, 3, 97, 98>>,
          <<STRING_16, 0>>, <<STRING_32, 0, 0, 0>>,
          <<STRING_16, 16, 0>> \o Letters(4096), <<STRING_16, 16, 1>> \o Letters(4097),
          <<STRING_32, 0, 0, 16, 1>> \o Letters(4097),
          <<STRING_16, 16, 1>> \o Letters(4000)}

\* how many bytes one read call of the source hands out at most
Chunks == {1, 2, WholeReads}

\* decode::<String, _>
Decode_String ==
    /\ outcome.res = "none"
    /\ \E input \in StrSources : \E chunk \in Chunks :
          Decoding("String", chunk, input, read_str(input, 0, chunk))

\* the size behind a LIST_*, MAP_* or STRUCT_* marker: reader.read_u8 /
\* read_u16 / read_u32::<BigEndian>() as usize
ReadSize(b, p, bits) ==
    IF read_len(b, p, bits) < 0 THEN DecodeEOF(b)
    ELSE DecodeOk(read_len(b, p, bits), p + bits \div 8)

\* fn read_seq up to the call of f: the size handed to f
read_seq(b, p) ==
    IF ~Has(b, p, 1) THEN DecodeEOF(b)
    ELSE LET marker == b[p + 1]
         IN  IF is_tiny_list(marker) THEN DecodeOk(marker % 16, p + 1)
             ELSE IF marker = LIST_8 THEN ReadSize(b, p + 1, 8)
             ELSE IF marker = LIST_16 THEN ReadSize(b, p + 1, 16)
             ELSE IF marker = LIST_32 THEN ReadSize(b, p + 1, 32)
             ELSE wrong_marker("LIST", marker, p + 1)

\* fn read_map up to the call of f: the size handed to f
read_map(b, p) ==
    IF ~Has(b, p, 1) THEN DecodeEOF(b)
    ELSE LET marker == b[p + 1]
         IN  IF is_tiny_map(marker) THEN DecodeOk(marker % 16, p + 1)
             ELSE IF marker = MAP_8 THEN ReadSize(b, p + 1, 8)
             ELSE IF marker = MAP_16 THEN ReadSize(b, p + 1, 16)
             ELSE IF marker = MAP_32 THEN ReadSize(b, p + 1, 32)
             ELSE wrong_marker("MAP", marker, p + 1)

\* Decodable::decode for the field types of the structs, tuples and enums
\* decoded (f32 decodes by read_f64)
DecodeAs(t, b, p, chunk) ==
    IF t = "u16" THEN read_u16(b, p)
    ELSE IF t = "u32" THEN read_u32(b, p)
    ELSE IF t = "i64" THEN read_i64(b, p)
    ELSE IF t = "f64" \/ t = "f32" THEN read_f64(b, p)
    ELSE read_str(b, p, chunk)

RECURSIVE DecodeItems(_, _, _, _)
\* Decodable for Vec<i64>, the closure given to read_seq:
\* `for i in 0..len { v.push(try!(d.read_seq_elt(i, Decodable::decode))) }`
DecodeItems(b, p, len, v) ==
    IF len = 0 THEN DecodeOk(v, p)
    ELSE LET r == read_i64(b, p)
         IN  IF r.res # "Ok" THEN r ELSE DecodeItems(b, r.p, len - 1, Append(v, r.v))

RECURSIVE DecodePairs(_, _, _, _, _)
\* Decodable for BTreeMap<String, i64>, the closure given to read_map: each
\* turn decodes a key and a value and inserts them
DecodePairs(b, p, len, m, chunk) ==
    IF len = 0 THEN DecodeOk(m, p)
    ELSE LET k == read_str(b, p, chunk)
             v == read_i64(b, k.p)
         IN  IF k.res # "Ok" THEN k
             ELSE IF v.res # "Ok" THEN v
             ELSE DecodePairs(b, v.p, len - 1, BTreeInsert(m, k.v, v.v), chunk)

\* Decodable for Vec<i64>
DecodeVec(b, p) ==
    LET r == read_seq(b, p)
    IN  IF r.res # "Ok" THEN r ELSE DecodeItems(b, r.p, r.v, <<>>)

\* Decodable for BTreeMap<String, i64>
DecodeBTreeMap(b, p, chunk) ==
    LET r == read_map(b, p)
    IN  IF r.res # "Ok" THEN r ELSE DecodePairs(b, r.p, r.v, <<>>, chunk)

\* the decimal digits of a small number, for format!("{}", n)
Decimal(n) ==
    LET d == <<"0", "1", "2", "3", "4", "5", "6", "7", "8", "9">>
    IN  IF n < 10 THEN d[n + 1]
        ELSE IF n < 100 THEN d[(n \div 10) + 1] \o d[(n % 10) + 1]
        ELSE d[((n \div 100) % 10) + 1] \o d[((n \div 10) % 10) + 1] \o d[(n % 10) + 1]

\* read_struct that does not compare the size on the wire with len
read_struct_AnySize(b, p, s_name, len) ==
    IF ~Has(b, p, 1) THEN DecodeEOF(b)
    ELSE LET marker == b[p + 1]
             size == IF is_tiny_map(marker) \/ is_tiny_structure(marker)
                     THEN DecodeOk(marker % 16, p + 1)
                     ELSE IF marker = MAP_8 \/ marker = STRUCT_8 THEN ReadSize(b, p + 1, 8)
                     ELSE IF marker = MAP_16 \/ marker = STRUCT_16
                     THEN ReadSize(b, p + 1, 16)
                     ELSE ReadSize(b, p + 1, 32)
         IN  IF ~is_map(marker) /\ ~is_structure(marker)
             THEN wrong_marker("MAP or STRUCTURE", marker, p + 1)
             ELSE IF size.res # "Ok" THEN size
             ELSE DecodeOk(IF is_map(marker) THEN "Regular" ELSE "Structure", size.p)

\* fn read_struct up to the call of f: the StructKind pushed on struct_stack
read_struct(b, p, s_name, len) ==
    IF ~Has(b, p, 1) THEN DecodeEOF(b)
    ELSE LET marker == b[p + 1]
             size == IF is_tiny_map(marker) \/ is_tiny_structure(marker)
                     THEN DecodeOk(marker % 16, p + 1)
                     ELSE IF marker = MAP_8 \/ marker = STRUCT_8 THEN ReadSize(b, p + 1, 8)
                     ELSE IF marker = MAP_16 \/ marker = STRUCT_16
                     THEN ReadSize(b, p + 1, 16)
                     ELSE ReadSize(b, p + 1, 32)
         IN  IF ~is_map(marker) /\ ~is_structure(marker)
             THEN wrong_marker("MAP or STRUCTURE", marker, p + 1)
             ELSE IF size.res # "Ok" THEN size
             ELSE IF size.v # len
             THEN wrong_input(s_name \o " (" \o Decimal(len) \o " fields)",
                              "? (" \o Decimal(size.v) \o " fields)", size.p)
             ELSE DecodeOk(IF is_map(marker) THEN "Regular" ELSE "Structure", size.p)

\* the StructKind::Regular arm of read_struct_field behind `let prop =
\* try!(self.read_str())`
KeyedField(b, prop, f_name, t, chunk) ==
    IF prop.res # "Ok" THEN prop
    ELSE IF prop.v # f_name
    THEN DecodeResult("WrongField", <<>>, prop.p, prop.v, f_name)
    ELSE DecodeAs(t, b, prop.p, chunk)

\* fn read_struct_field: f decodes the field's type t
read_struct_field(b, p, kind, f_name, t, chunk) ==
    IF kind = "Regular" THEN KeyedField(b, read_str(b, p, chunk), f_name, t, chunk)
    ELSE DecodeAs(t, b, p, chunk)

RECURSIVE DecodeFields(_, _, _, _, _, _)
\* one field decoded with result r: try! returns its error, else the rest of
\* the fields are decoded
NextField(b, r, kind, fields, chunk, v) ==
    IF r.res # "Ok" THEN r
    ELSE DecodeFields(b, r.p, kind, Tail(fields), chunk, Append(v, r.v))

\* the closure of a derived Decodable: the fields in order, each by
\* read_struct_field (kind "Regular" or "Structure") or, for a tuple or an
\* enum variant (kind "Tuple"), by read_tuple_arg / read_enum_variant_arg
DecodeFields(b, p, kind, fields, chunk, v) ==
    IF fields = <<>> THEN DecodeOk(v, p)
    ELSE NextField(b, read_struct_field(b, p, kind, fields[1].name, fields[1].t, chunk),
                   kind, fields, chunk, v)

\* the struct, the tuple and the enum of the tests: MyStruct { A: u32, B: f64,
\* C: String }, (u32, f64, String), MyEnum { A(u16, u16), B(f32, f32) }
MyStruct ==
    << [name |-> <<65>>, t |-> "u32"], [name |-> <<66>>, t |-> "f64"],
       [name |-> <<67>>, t |-> "String"] >>
MyTuple ==
    << [name |-> <<>>, t |-> "u32"], [name |-> <<>>, t |-> "f64"],
       [name |-> <<>>, t |-> "String"] >>
MyEnum ==
    << [name |-> <<65>>, args |-> << [name |-> <<>>, t |-> "u16"],
                                     [name |-> <<>>, t |-> "u16"] >>],
       [name |-> <<66>>, args |-> << [name |-> <<>>, t |-> "f32"],
                                     [name |-> <<>>, t |-> "f32"] >>] >>

\* f of read_struct, called when read_struct pushed the kind r.v
StructFields(b, r, fields, chunk) ==
    IF r.res # "Ok" THEN r ELSE DecodeFields(b, r.p, r.v, fields, chunk, <<>>)

\* derive(RustcDecodable) for a struct with the given fields
DecodeStruct(b, p, s_name, fields, chunk) ==
    StructFields(b, read_struct(b, p, s_name, Len(fields)), fields, chunk)

\* the closure read_tuple gives to read_seq, called with the length r.v
TupleFields(b, r, fields, chunk) ==
    IF r.res # "Ok" THEN r
    ELSE IF r.v = Len(fields) THEN DecodeFields(b, r.p, "Tuple", fields, chunk, <<>>)
    ELSE wrong_input("Tuple" \o Decimal(Len(fields)), "Tuple" \o Decimal(r.v), r.p)

\* fn read_tuple, with Decodable for a tuple of the given fields as f
read_tuple(b, p, fields, chunk) == TupleFields(b, read_seq(b, p), fields, chunk)

\* names.iter().position(|n| *n == name): 0 when there is none
Position(variants, name) ==
    IF \E i \in 1..Len(variants) : variants[i].name = name
    THEN CHOOSE i \in 1..Len(variants) :
            /\ variants[i].name = name
            /\ \A j \in 1..(i - 1) : variants[j].name # name
    ELSE 0

\* the variant built by the derived closure from its decoded arguments
Variant(name, r) == IF r.res # "Ok" THEN r ELSE DecodeOk(<<name, r.v>>, r.p)

\* the end of read_enum_variant: idx from position(), then f(self, idx), the
\* derived closure that decodes the variant's arguments
EnumVariant(b, name, p, variants, chunk) ==
    IF Position(variants, name) = 0
    THEN DecodeResult("UnknownVariant", name, p, "", "")
    ELSE Variant(name, DecodeFields(b, p, "Tuple", variants[Position(variants, name)].args,
                                    chunk, <<>>))

\* the tiny-map arm of read_enum_variant behind read_seq
EnumArgs(b, name, args, variants, chunk) ==
    IF args.res # "Ok" THEN args ELSE EnumVariant(b, name, args.p, variants, chunk)

\* the tiny-map arm of read_enum_variant behind the size: read_str gave name,
\* read_seq with an empty closure takes the header of the list of arguments
EnumWrapped(b, name, variants, chunk) ==
    IF name.res # "Ok" THEN name ELSE EnumArgs(b, name.v, read_seq(b, name.p), variants, chunk)

\* the string arm of read_enum_variant: read_string_data gave name
EnumBare(b, name, variants, chunk) ==
    IF name.res # "Ok" THEN name ELSE EnumVariant(b, name.v, name.p, variants, chunk)

\* read_enum_variant that takes a wrapping map of any size
read_enum_variant_AnyMap(b, p, variants, chunk) ==
    IF ~Has(b, p, 1) THEN DecodeEOF(b)
    ELSE IF is_string(b[p + 1])
    THEN EnumBare(b, read_string_data(b, p + 1, b[p + 1], chunk), variants, chunk)
    ELSE IF is_tiny_map(b[p + 1])
    THEN EnumWrapped(b, read_str(b, p + 1, chunk), variants, chunk)
    ELSE wrong_marker("ENUM_VARIANT", b[p + 1], p + 1)

\* fn read_enum_variant, with the derived Decodable of the enum as f: the
\* variant's name, then its arguments by read_enum_variant_arg
read_enum_variant(b, p, variants, chunk) ==
    IF ~Has(b, p, 1) THEN DecodeEOF(b)
    ELSE IF is_string(b[p + 1])
    THEN EnumBare(b, read_string_data(b, p + 1, b[p + 1], chunk), variants, chunk)
    ELSE IF is_tiny_map(b[p + 1])
    THEN IF b[p + 1] % 16 # 1
         THEN wrong_input("Map(1)", "Map(" \o Decimal(b[p + 1] % 16) \o ")", p + 1)
         ELSE EnumWrapped(b, read_str(b, p + 1, chunk), variants, chunk)
    ELSE wrong_marker("ENUM_VARIANT", b[p + 1], p + 1)

(***************************************************************************)
(* Deserializer: src/src/v1/packstream/deserialize/mod.rs                  *)
(***************************************************************************)

\* format!("{:02X}", value)
Hex2(byte) ==
    LET d == <<"0", "1", "2", "3", "4", "5", "6", "7",
               "8", "9", "A", "B", "C", "D", "E", "F">>
    IN  d[(byte \div 16) + 1] \o d[(byte % 16) + 1]

\* the call a visitor receives from parse_value, with its argument
Visit(name, arg, p) == DecodeOk(<<name, arg>>, p)

\* fn parse_int, and the visitor call parse_value makes for the integer; the
\* casts `v as u8` .. `v as i32` keep the value, which the marker bounds
ParseInt(b, marker) ==
    LET int == ReadMarked(b, 1, marker, 64)
        pos == ~Negative(int.v) /\ int.v # W64(0)
        bits == CASE marker = 201 -> "16" [] marker = 202 -> "32"
                  [] marker = 203 -> "64" [] OTHER -> "8"
    IN  IF int.res # "Ok" THEN int
        ELSE Visit((IF pos THEN "visit_u" ELSE "visit_i") \o bits, int.v, int.p)

\* a value read by the PackstreamDecoder and handed to the visitor
Visiting(name, r, extra) ==
    IF r.res # "Ok" THEN r ELSE Visit(name, r.v + extra, r.p)

\* the size of a structure: its fields and its signature make a sequence
ParseStructSize(b, marker) ==
    CASE marker \in 176..191 -> DecodeOk(marker % 16, 1)
      [] marker = 220 -> ReadSize(b, 1, 8)
      [] OTHER -> ReadSize(b, 1, 16)

\* fn parse_value on an empty peek buffer, up to the call of the visitor
parse_value(b, chunk) ==
    IF ~Has(b, 0, 1) THEN DecodeEOF(b)
    ELSE LET marker == b[1]
         IN  CASE marker = 192 -> Visit("visit_unit", <<>>, 1)
               [] marker = 195 -> Visit("visit_bool", TRUE, 1)
               [] marker = 194 -> Visit("visit_bool", FALSE, 1)
               [] is_tiny_int(marker) \/ marker \in 200..203 -> ParseInt(b, marker)
               [] marker = 193 ->
                    LET r == read_f64(b, 0)
                    IN  IF r.res # "Ok" THEN r ELSE Visit("visit_f64", r.v, r.p)
               [] is_string(marker) ->
                    LET r == read_string_data(b, 1, marker, chunk)
                    IN  IF r.res # "Ok" THEN r ELSE Visit("visit_str", r.v, r.p)
               [] marker \in 144..159 \/ marker \in 212..214 ->
                    Visiting("visit_seq", read_seq(b, 0), 0)
               [] is_map(marker) -> Visiting("visit_map", read_map(b, 0), 0)
               [] is_structure(marker) ->
                    Visiting("visit_seq", ParseStructSize(b, marker), 1)
               [] OTHER ->
                    DecodeResult("UnexpectedMarker", <<>>, 0, "Type Marker", Hex2(marker))

(***************************************************************************)
(* The decode calls                                                        *)
(***************************************************************************)

\* the tiny integers 1, 2, .., n
Counting(n) == [i \in 1..n |-> i]

\* the list encodings decoded: the lists [1, .., n] for n = 0, 2, 15, 16 in
\* every size tier that holds n, inputs that end inside the size or the
\* items, and every single byte
ListSources ==
    {<<m>> : m \in 0..255}
    \cup {<<TINY_LIST_NIBBLE + n>> \o Counting(n) : n \in {2, 15}}
    \cup {<<LIST_8, n>> \o Counting(n) : n \in {0, 2, 15, 16}}
    \cup {<<LIST_16, 0, n>> \o Counting(n) : n \in {0, 2, 15, 16}}
    \cup {<<LIST_32, 0, 0, 0, n>> \o Counting(n) : n \in {0, 2, 15, 16}}
    \cup {<<TINY_LIST_NIBBLE + 2, 1>>, <<LIST_16, 0>>, <<LIST_32, 0, 0, 0>>,
          <<TINY_LIST_NIBBLE + 1, NULL>>}

\* the bytes of the map entries "a": 1 and "b": 2
EntryA == <<TINY_STRING_NIBBLE + 1, 97, 1>>
EntryB == <<TINY_STRING_NIBBLE + 1, 98, 2>>

\* the entries of the maps decoded
MapBodies == {<<>>, EntryA, EntryA \o EntryB, EntryB \o EntryA}

\* the map encodings decoded: maps of 0, 1 and 2 entries in every size tier,
\* inputs that end before the last entry, and every single byte
MapSources ==
    {<<m>> : m \in 0..255}
    \cup {<<TINY_MAP_NIBBLE + Len(e) \div 3>> \o e : e \in MapBodies}
    \cup {<<MAP_8, Len(e) \div 3>> \o e : e \in MapBodies}
    \cup {<<MAP_16, 0, Len(e) \div 3>> \o e : e \in MapBodies}
    \cup {<<MAP_32, 0, 0, 0, Len(e) \div 3>> \o e : e \in MapBodies}
    \cup {<<TINY_MAP_NIBBLE + 2>> \o EntryA, <<MAP_16, 0>>}

\* the float 1.1
Float11 == <<FLOAT, 63, 241, 153, 153, 153, 153, 153, 154>>

\* the fields of a MyStruct behind the header: as map entries under the keys
\* k1, k2, k3, and as bare values
KeyedFields(k1, k2, k3) ==
    <<TINY_STRING_NIBBLE + 1, k1, 1>> \o <<TINY_STRING_NIBBLE + 1, k2>> \o Float11
        \o <<TINY_STRING_NIBBLE + 1, k3, TINY_STRING_NIBBLE + 1, 67>>
BareFields == <<1>> \o Float11 \o <<TINY_STRING_NIBBLE + 1, 67>>

\* the headers put in front of the fields: every map and structure tier with
\* the sizes 2, 3 and 4
StructHeaders(tiny, m8, m16) ==
    {<<tiny + n>> : n \in {2, 3, 4}} \cup {<<m8, n>> : n \in {2, 3, 4}}
        \cup {<<m16, 0, n>> : n \in {2, 3, 4}}

\* the struct encodings decoded into MyStruct
StructSources ==
    {<<m>> : m \in 0..255}
    \cup {h \o KeyedFields(65, 66, 67) : h \in StructHeaders(TINY_MAP_NIBBLE, MAP_8, MAP_16)}
    \cup {<<MAP_32, 0, 0, 0, n>> \o KeyedFields(65, 66, 67) : n \in {2, 3, 4}}
    \cup {h \o BareFields : h \in StructHeaders(TINY_STRUCT_NIBBLE, STRUCT_8, STRUCT_16)}
    \cup {<<TINY_MAP_NIBBLE + 3>> \o KeyedFields(k[1], k[2], k[3]) :
            k \in {<<66, 65, 67>>, <<65, 67, 66>>, <<65, 66, 68>>, <<97, 66, 67>>}}
    \cup {<<MAP_8, 3>> \o KeyedFields(88, 66, 67), <<MAP_16, 0>>, <<STRUCT_8>>}

\* the list encodings decoded into (u32, f64, String)
TupleSources ==
    {<<m>> : m \in 0..255}
    \cup {h \o BareFields : h \in StructHeaders(TINY_LIST_NIBBLE, LIST_8, LIST_16)}
    \cup {<<LIST_32, 0, 0, 0, n>> \o BareFields : n \in {2, 3, 4}}
    \cup {<<TINY_LIST_NIBBLE>>, <<LIST_8, 0>>, <<TINY_LIST_NIBBLE + 3, 1>>}

\* the encodings decoded into MyEnum: the variant A(1, 2) and B(1.1, 1.1)
\* under wrapping maps of the sizes 0 to 3 and under MAP_8, a bare variant
\* name, a name that is no variant
EnumSources ==
    {<<m>> : m \in 0..255}
    \cup {<<TINY_MAP_NIBBLE + n, TINY_STRING_NIBBLE + 1, 65, TINY_LIST_NIBBLE + 2, 1, 2>> :
            n \in 0..3}
    \cup {<<TINY_MAP_NIBBLE + n, TINY_STRING_NIBBLE + 1, 66, TINY_LIST_NIBBLE + 2>>
            \o Float11 \o Float11 : n \in 0..3}
    \cup {<<MAP_8, n, TINY_STRING_NIBBLE + 1, 65, TINY_LIST_NIBBLE + 2, 1, 2>> : n \in 1..2}
    \cup {<<TINY_STRING_NIBBLE + 1, 65>>, <<TINY_STRING_NIBBLE + 1, 65, 1, 2>>,
          <<TINY_MAP_NIBBLE + 1, TINY_STRING_NIBBLE + 1, 67, TINY_LIST_NIBBLE + 2, 1, 2>>,
          <<TINY_MAP_NIBBLE + 1, TINY_STRING_NIBBLE + 1, 65, TINY_LIST_NIBBLE + 2, 1>>}

\* the encodings handed to the untyped decoders
ValueSources ==
    IntSources \cup ListSources \cup MapSources
        \cup {s \in StrSources : Len(s) < 16} \cup {s \in StructSources : Len(s) < 16}

\* decode::<Vec<i64>, _>
Decode_Vec ==
    /\ outcome.res = "none"
    /\ \E input \in ListSources :
          Decoding("Vec", WholeReads, input, DecodeVec(input, 0))

\* decode::<BTreeMap<String, i64>, _>
Decode_BTreeMap ==
    /\ outcome.res = "none"
    /\ \E input \in MapSources : \E chunk \in Chunks :
          Decoding("BTreeMap", chunk, input, DecodeBTreeMap(input, 0, chunk))

\* decode::<MyStruct, _>
Decode_MyStruct ==
    /\ outcome.res = "none"
    /\ \E input \in StructSources :
          Decoding("MyStruct", WholeReads, input,
                       DecodeStruct(input, 0, "MyStruct", MyStruct, WholeReads))

\* decode::<(u32, f64, String), _>
Decode_Tuple ==
    /\ outcome.res = "none"
    /\ \E input \in TupleSources :
          Decoding("Tuple", WholeReads, input, read_tuple(input, 0, MyTuple, WholeReads))

\* decode::<MyEnum, _>: read_enum calls f, the derived f calls read_enum_variant
Decode_MyEnum ==
    /\ outcome.res = "none"
    /\ \E input \in EnumSources :
          Decoding("MyEnum", WholeReads, input,
                       read_enum_variant(input, 0, MyEnum, WholeReads))

\* what build returned, as the result of a decode call: a BuilderError has no
\* fields
Built(r) == DecodeResult(r.res, r.v, 0, "", "")

\* the items of the map entries given to the Builder: strings, an integer,
\* NULL and an empty list
EntryItems == {<<129, 97>>, <<129, 120>>, <<129, 121>>, <<1>>, <<NULL>>, <<144>>}

\* the maps of 0, 1 and 2 entries of those items, under the tiny and the
\* 8-bit size, and a map cut short behind the key of its second entry
BuilderMaps ==
    {<<TINY_MAP_NIBBLE>>, <<MAP_8, 0>>}
    \cup {<<TINY_MAP_NIBBLE + 1>> \o k \o v : k \in EntryItems, v \in EntryItems}
    \cup {<<MAP_8, 1>> \o k \o v : k \in EntryItems, v \in EntryItems}
    \cup {<<TINY_MAP_NIBBLE + 2>> \o k \o v \o w \o x :
            k \in {<<129, 97>>, <<129, 120>>}, v \in {<<129, 97>>, <<129, 120>>, <<1>>},
            w \in {<<129, 97>>, <<129, 121>>}, x \in {<<129, 121>>, <<NULL>>}}
    \cup {<<TINY_MAP_NIBBLE + 2, 129, 97, 129, 120, 129, 97>>}

\* Builder::from_reader(input).build()
Decode_Value ==
    /\ outcome.res = "none"
    /\ \E input \in ValueSources \cup BuilderMaps :
          Decoding("Value", WholeReads, input, Built(build(input)))

\* Deserializer::new(input).parse_value(visitor)
Parse_value ==
    /\ outcome.res = "none"
    /\ \E input \in ValueSources :
          Decoding("parse_value", WholeReads, input, parse_value(input, WholeReads))

\* protocol/server.rs: the signatures of the server messages
RECORD_SIG == 113
SUCCESS_SIG == 112
FAILURE_SIG == 127
IGNORED_SIG == 126

\* the match on the signature in Decodable for Message<T>
ServerMessage(v) ==
    CASE v = RECORD_SIG -> <<"Record">>
      [] v = SUCCESS_SIG -> <<"Success">>
      [] v = FAILURE_SIG -> <<"Failure">>
      [] v = IGNORED_SIG -> <<"Ignored">>
      [] OTHER -> <<"Unknown", v>>

\* the types T of the Message<T> that Connection decodes:
\* BTreeMap<String, ()> in init
InitData == [k |-> "map", of |-> [k |-> "nil"]]
\* BTreeMap<String, Vec<String>> in run
RunData == [k |-> "map", of |-> [k |-> "vec", of |-> [k |-> "str"]]]
\* Vec<u32> in pull_all
PullAllData == [k |-> "vec", of |-> [k |-> "u32"]]

RECURSIVE DecodeT(_, _, _, _)
RECURSIVE DecodeElts(_, _, _, _, _, _)

\* an element decoded: push it and go on with the rest
PushT(t, b, r, len, v, chunk) ==
    IF r.res # "Ok" THEN r
    ELSE DecodeElts(t, b, r.p, len - 1, Append(v, r.v), chunk)

\* a value decoded behind its key: insert the entry and go on with the rest
InsertT(t, b, key, r, len, v, chunk) ==
    IF r.res # "Ok" THEN r
    ELSE DecodeElts(t, b, r.p, len - 1, BTreeInsert(v, key, r.v), chunk)

\* a key decoded: decode the value behind it
EntryT(t, b, key, len, v, chunk) ==
    IF key.res # "Ok" THEN key
    ELSE InsertT(t, b, key.v, DecodeT(t.of, b, key.p, chunk), len, v, chunk)

\* the closures Decodable for Vec<T> and for BTreeMap<String, V> give to
\* read_seq and read_map: len elements, or len times a key and a value
DecodeElts(t, b, p, len, v, chunk) ==
    IF len = 0 THEN DecodeOk(v, p)
    ELSE IF t.k = "vec" THEN PushT(t, b, DecodeT(t.of, b, p, chunk), len, v, chunk)
    ELSE EntryT(t, b, read_str(b, p, chunk), len, v, chunk)

\* the size of a list or map read: decode that many elements
SizedT(t, b, r, chunk) ==
    IF r.res # "Ok" THEN r ELSE DecodeElts(t, b, r.p, r.v, <<>>, chunk)

\* Decodable::decode for (), u32, String, Vec<T> and BTreeMap<String, V>
DecodeT(t, b, p, chunk) ==
    CASE t.k = "nil" -> read_nil(b, p)
      [] t.k = "u32" -> read_u32(b, p)
      [] t.k = "str" -> read_str(b, p, chunk)
      [] t.k = "vec" -> SizedT(t, b, read_seq(b, p), chunk)
      [] t.k = "map" -> SizedT(t, b, read_map(b, p), chunk)

\* Decodable for Message<T>, the end of the closure: `data = Some(result)`
MessageData(kind, r) ==
    IF r.res # "Ok" THEN r ELSE DecodeOk([kind |-> kind, data |-> r.v], r.p)

\* Decodable for Message<T>, the closure given to read_struct: the signature
\* by read_u8, then T::decode
MessageKind(t, b, sig, chunk) ==
    IF sig.res # "Ok" THEN sig
    ELSE MessageData(ServerMessage(sig.v[4]), DecodeT(t, b, sig.p, chunk))

\* Decodable for Message<T>: d.read_struct("Message", 2, ...)
DecodeMessage(t, b, p, chunk) ==
    LET s == read_struct(b, p, "Message", 2)
    IN  IF s.res # "Ok" THEN s ELSE MessageKind(t, b, read_u8(b, s.p), chunk)

\* Message that takes the structure marker without comparing its field count
DecodeMessage_AnySize(t, b, p, chunk) ==
    LET s == read_struct_AnySize(b, p, "Message", 2)
    IN  IF s.res # "Ok" THEN s ELSE MessageKind(t, b, read_u8(b, s.p), chunk)

\* the fields the server messages carry: {}, [], {"a": null}, [1], [1, 200],
\* {"a": ["b"]}, {"b": [], "a": []}
ReplyFields ==
    {<<TINY_MAP_NIBBLE>>, <<TINY_LIST_NIBBLE>>,
     <<TINY_MAP_NIBBLE + 1, TINY_STRING_NIBBLE + 1, 97, NULL>>,
     <<TINY_LIST_NIBBLE + 1, 1>>,
     <<TINY_LIST_NIBBLE + 2, 1, INT_16, 0, 200>>,
     <<TINY_MAP_NIBBLE + 1, TINY_STRING_NIBBLE + 1, 97,
       TINY_LIST_NIBBLE + 1, TINY_STRING_NIBBLE + 1, 98>>,
     <<TINY_MAP_NIBBLE + 2, TINY_STRING_NIBBLE + 1, 98, TINY_LIST_NIBBLE,
       TINY_STRING_NIBBLE + 1, 97, TINY_LIST_NIBBLE>>}

\* the tag bytes tried: the four signatures and tags that are none of them
ReplyTags == {RECORD_SIG, SUCCESS_SIG, FAILURE_SIG, IGNORED_SIG, 0, 5, 15, 128, 240, 255}

\* the replies decoded: a tiny structure of one field as the server sends it,
\* the same bytes behind a marker that declares two fields, and short inputs
MessageSources ==
    {<<TINY_STRUCT_NIBBLE + 1, tag>> \o f : tag \in ReplyTags, f \in ReplyFields}
    \cup {<<TINY_STRUCT_NIBBLE + 2, tag>> \o f : tag \in ReplyTags, f \in ReplyFields}
    \cup {<<STRUCT_8, 2, SUCCESS_SIG, TINY_MAP_NIBBLE>>,
          <<TINY_STRUCT_NIBBLE + 1>>, <<TINY_STRUCT_NIBBLE + 2>>,
          <<TINY_STRUCT_NIBBLE + 2, SUCCESS_SIG>>, <<>>}

\* decode::<Message<BTreeMap<String, ()>>, _>, as Connection::init calls it
Decode_InitReply ==
    /\ outcome.res = "none"
    /\ \E input \in MessageSources :
          Decoding("Message<BTreeMap<String, ()>>", WholeReads, input,
                   DecodeMessage(InitData, input, 0, WholeReads))

\* decode::<Message<BTreeMap<String, Vec<String>>>, _>, as Connection::run calls it
Decode_RunReply ==
    /\ outcome.res = "none"
    /\ \E input \in MessageSources :
          Decoding("Message<BTreeMap<String, Vec<String>>>", WholeReads, input,
                   DecodeMessage(RunData, input, 0, WholeReads))

\* decode::<Message<Vec<u32>>, _>, as Connection::pull_all calls it
Decode_PullAllReply ==
    /\ outcome.res = "none"
    /\ \E input \in MessageSources :
          Decoding("Message<Vec<u32>>", WholeReads, input,
                   DecodeMessage(PullAllData, input, 0, WholeReads))

(***************************************************************************)
(* Round trips: a value encoded by the PackstreamEncoder and the bytes     *)
(* decoded by the PackstreamDecoder                                        *)
(***************************************************************************)

\* the u8 values, and the ends of the halves of the wider unsigned types
U8Inputs == {W64(n) : n \in 0..255}
U16Inputs == {W64(n) : n \in {0, 127, 128, 255, 256, 32767, 32768, 65534, 65535}}
U32Inputs ==
    {W64(n) : n \in {0, 127, 128, 32767, 32768, 65535, 65536, 2147483647}}
    \cup {<<0, 0, 32768, 0>>, <<0, 0, 65535, 65535>>}
U64Inputs ==
    {W64(n) : n \in {0, 127, 128, 32767, 32768, 2147483647}}
    \cup {<<0, 0, 32768, 0>>, <<0, 0, 65535, 65535>>, <<0, 1, 0, 0>>,
          <<32767, 65535, 65535, 65535>>, <<32768, 0, 0, 0>>,
          <<65535, 65535, 65535, 65535>>}

\* decode(&mut Cursor::new(encode(&v).unwrap())): the emit call op wrote w for
\* the value v, and decoding the bytes of w into the type t returned r
RoundTrip(op, t, v, w, r) ==
    /\ writer' = w
    /\ emitted' = [op |-> op, n |-> 0, v |-> v, f |-> <<>>, before |-> <<>>]
    /\ eresult' = "Ok"
    /\ source' = Plain(w)
    /\ target' = [t |-> t, chunk |-> WholeReads]
    /\ outcome' = r
    /\ UNCHANGED <<nvars, tvars, mvars, vvars>>

\* a u8 through emit_u8 and read_u8
RoundTrip_u8 ==
    /\ outcome.res = "none"
    /\ \E v \in U8Inputs :
          RoundTrip("emit_u8", "u8", v, emit_u64(<<>>, v),
                    read_u8(Plain(emit_u64(<<>>, v)), 0))

\* a u16 through emit_u16 and read_u16
RoundTrip_u16 ==
    /\ outcome.res = "none"
    /\ \E v \in U16Inputs :
          RoundTrip("emit_u16", "u16", v, emit_u64(<<>>, v),
                    read_u16(Plain(emit_u64(<<>>, v)), 0))

\* a u32 through emit_u32 and read_u32
RoundTrip_u32 ==
    /\ outcome.res = "none"
    /\ \E v \in U32Inputs :
          RoundTrip("emit_u32", "u32", v, emit_u64(<<>>, v),
                    read_u32(Plain(emit_u64(<<>>, v)), 0))

\* a u64 through emit_u64 and read_u64
RoundTrip_u64 ==
    /\ outcome.res = "none"
    /\ \E v \in U64Inputs :
          RoundTrip("emit_u64", "u64", v, emit_u64(<<>>, v),
                    read_u64(Plain(emit_u64(<<>>, v)), 0))

\* Encodable for Option<T> through emit_option: None by emit_option_none,
\* which is emit_nil, Some(x) by emit_option_some, which encodes x
emit_option(w, t, o) ==
    IF o = <<>> THEN emit_nil(w)
    ELSE IF t = "i64" THEN emit_i64(w, o[1])
    ELSE emit_str(w, Bytes(o[1]))

\* Some(value) of the result of T::decode
Some(r) == IF r.res # "Ok" THEN r ELSE DecodeOk(<<r.v>>, r.p)

\* fn read_option with the closure of Decodable for Option<T>: the marker is
\* read, then None for NULL and Some(T::decode) for every other byte
read_option(b, p, t, chunk) ==
    IF ~Has(b, p, 1) THEN DecodeEOF(b)
    ELSE IF b[p + 1] = NULL THEN DecodeOk(<<>>, p + 1)
    ELSE Some(DecodeAs(t, b, p + 1, chunk))

\* the optional integers and strings encoded: None and Some of the ends of
\* the integer tiers, of "", "a" and "ab"
OptionInputs ==
    {[t |-> "i64", o |-> <<>>], [t |-> "String", o |-> <<>>]}
    \cup {[t |-> "i64", o |-> <<v>>] : v \in I64Inputs}
    \cup {[t |-> "String", o |-> <<s>>] : s \in {<<>>, <<97>>, <<97, 98>>}}

\* an Option<i64> or Option<String> through emit_option and read_option
RoundTrip_Option ==
    /\ outcome.res = "none"
    /\ \E i \in OptionInputs :
          RoundTrip("emit_option", "Option<" \o i.t \o ">", i.o,
                    emit_option(<<>>, i.t, i.o),
                    read_option(Plain(emit_option(<<>>, i.t, i.o)), 0, i.t, WholeReads))

\* encoding a value and decoding the bytes
RNext ==
    \/ DecodeNew
    \/ RoundTrip_u8
    \/ RoundTrip_u16
    \/ RoundTrip_u32
    \/ RoundTrip_u64
    \/ RoundTrip_Option

(***************************************************************************)
(* deserialize/mod.rs: the serde Deserializer with its look-ahead buffer   *)
(***************************************************************************)

\* what a call on the Deserializer returns, with the position p of the reader
\* and the look-ahead buffer it leaves
Des(res, v, p, buf) ==
    [res |-> res, v |-> v, p |-> p, exp |-> "", got |-> "", buffer |-> buf]

\* the result of a read on self.reader, which leaves the buffer alone
OfReader(r, buf) ==
    [res |-> r.res, v |-> r.v, p |-> r.p, exp |-> r.exp, got |-> r.got, buffer |-> buf]

\* fn peek_next: a byte is read and pushed onto the back of the buffer
peek_next(b, p, buf) ==
    IF ~Has(b, p, 1) THEN Des("UnexpectedEOF", <<>>, p, buf)
    ELSE Des("Ok", b[p + 1], p + 1, Append(buf, b[p + 1]))

\* fn peek: the front of the buffer, or peek_next
peek(b, p, buf) ==
    IF buf # <<>> THEN Des("Ok", Head(buf), p, buf) ELSE peek_next(b, p, buf)

\* fn bump: self.buffer.pop_front()
bump(buf) == IF buf = <<>> THEN buf ELSE Tail(buf)

\* fn next: the front of the buffer popped, or a byte read
next(b, p, buf) ==
    IF buf # <<>> THEN Des("Ok", Head(buf), p, Tail(buf))
    ELSE IF ~Has(b, p, 1) THEN Des("UnexpectedEOF", <<>>, p, buf)
    ELSE Des("Ok", b[p + 1], p + 1, buf)

\* the `self.bump(); result` that ends parse_value
Bumped(r) == Des(r.res, r.v, r.p, bump(r.buffer))

\* a visitor that does not take the call parse_value makes on it
invalid_type(r) ==
    IF r.res # "Ok" THEN r ELSE Des("invalid_type", <<>>, r.p, r.buffer)

\* fn parse_int
parse_int(b, p, buf) ==
    LET n == next(b, p, buf)
    IN  IF n.res # "Ok" THEN n
        ELSE IF ~is_int64_or_lesser(n.v) THEN Des("UnexpectedType", <<>>, n.p, n.buffer)
        ELSE OfReader(ReadMarked(b, n.p, n.v, 64), n.buffer)

\* fn parse_float
parse_float(b, p, buf) ==
    LET n == next(b, p, buf)
    IN  IF n.res # "Ok" THEN n
        ELSE IF ~Has(b, n.p, 8) THEN Des("UnexpectedEOF", <<>>, Len(b), n.buffer)
        ELSE Des("Ok", SubSeq(b, n.p + 1, n.p + 8), n.p + 8, n.buffer)

\* fn parse_string
parse_string(b, p, buf) ==
    LET n == next(b, p, buf)
    IN  IF n.res # "Ok" THEN n
        ELSE OfReader(read_string_data(b, n.p, n.v, WholeReads), n.buffer)

\* fn deserialize_u32: parse_int, then the range of the value
deserialize_u32(b, p, buf) ==
    LET i == parse_int(b, p, buf)
    IN  IF i.res # "Ok" THEN i
        ELSE IF Negative(i.v) \/ ~U64LE(i.v, <<0, 0, 65535, 65535>>) THEN invalid_type(i)
        ELSE i

\* the `let size = match marker { .. }` of the list, map and structure arms
\* of parse_value
ParseSize(b, p, marker) ==
    CASE marker \in 144..191 -> DecodeOk(marker % 16, p)
      [] marker \in {212, 216, 220} -> ReadSize(b, p, 8)
      [] marker \in {213, 217, 221} -> ReadSize(b, p, 16)
      [] OTHER -> ReadSize(b, p, 32)

\* the types deserialized, by name
OptionU32 == [k |-> "opt", of |-> [k |-> "u32"]]
SerdeType(name) ==
    CASE name = "u32" -> [k |-> "u32"]
      [] name = "String" -> [k |-> "str"]
      [] name = "Option<u32>" -> OptionU32
      [] name = "Vec<u32>" -> [k |-> "vec", of |-> [k |-> "u32"]]
      [] name = "Vec<String>" -> [k |-> "vec", of |-> [k |-> "str"]]
      [] name = "Vec<Vec<u32>>" -> [k |-> "vec", of |-> [k |-> "vec", of |-> [k |-> "u32"]]]
      [] name = "Vec<Option<u32>>" -> [k |-> "vec", of |-> OptionU32]
      [] name = "BTreeMap<String, u32>" -> [k |-> "map", of |-> [k |-> "u32"]]
      [] name = "BTreeMap<String, Option<u32>>" -> [k |-> "map", of |-> OptionU32]

RECURSIVE deserialize(_, _, _, _)
RECURSIVE SeqVisit(_, _, _, _, _, _, _)
RECURSIVE MapVisit(_, _, _, _, _, _, _)

\* the visitor of Vec<T> on a SeqVisitor: visit() until it returns None at
\* current >= size, then end()
SeqVisit(t, b, p, buf, size, current, v) ==
    IF current >= size THEN Des("Ok", v, p, buf)
    ELSE LET elt == deserialize(t, b, p, buf)
         IN  IF elt.res # "Ok" THEN elt
             ELSE SeqVisit(t, b, elt.p, elt.buffer, size, current + 1, Append(v, elt.v))

\* the visitor of BTreeMap<String, V> on a MapVisitor: visit_key and
\* visit_value until visit_key returns None at current >= size, then end()
MapVisit(t, b, p, buf, size, current, v) ==
    IF current >= size THEN Des("Ok", v, p, buf)
    ELSE LET key == deserialize([k |-> "str"], b, p, buf)
         IN  IF key.res # "Ok" THEN key
             ELSE LET val == deserialize(t, b, key.p, key.buffer)
                  IN  IF val.res # "Ok" THEN val
                      ELSE MapVisit(t, b, val.p, val.buffer, size, current + 1,
                                    BTreeInsert(v, key.v, val.v))

\* the list, map and structure arms of parse_value behind the peek: the
\* marker is taken by next(), the size is read under try!, and the visitor of
\* t gets visit_seq or visit_map
ParseCompound(t, b, pk) ==
    LET n == next(b, pk.p, pk.buffer)
        size == ParseSize(b, n.p, pk.v)
    IN  IF size.res # "Ok" THEN OfReader(size, n.buffer)
        ELSE IF is_map(pk.v)
        THEN IF t.k # "map" THEN Bumped(Des("invalid_type", <<>>, size.p, n.buffer))
             ELSE Bumped(MapVisit(t.of, b, size.p, n.buffer, size.v, 0, <<>>))
        ELSE IF t.k # "vec" THEN Bumped(Des("invalid_type", <<>>, size.p, n.buffer))
             ELSE Bumped(SeqVisit(t.of, b, size.p, n.buffer,
                                  size.v + (IF is_structure(pk.v) THEN 1 ELSE 0), 0, <<>>))

\* fn parse_value with the visitor of String, Vec<T> or BTreeMap<String, V>,
\* behind the peek pk: each arm, then `self.bump(); result`
ParseArm(t, b, pk) ==
    CASE pk.v \in {192, 194, 195} -> Bumped(invalid_type(pk))
      [] is_tiny_int(pk.v) \/ pk.v \in 200..203 ->
            Bumped(invalid_type(parse_int(b, pk.p, pk.buffer)))
      [] pk.v = 193 -> Bumped(invalid_type(parse_float(b, pk.p, pk.buffer)))
      [] is_string(pk.v) ->
            IF t.k = "str" THEN Bumped(parse_string(b, pk.p, pk.buffer))
            ELSE Bumped(invalid_type(parse_string(b, pk.p, pk.buffer)))
      [] pk.v \in 144..159 \/ pk.v \in 212..214 \/ is_map(pk.v) \/ is_structure(pk.v) ->
            ParseCompound(t, b, pk)
      [] OTHER -> Des("UnexpectedMarker", <<>>, pk.p, pk.buffer)

\* fn deserialize_option behind the peek pk: visit_none for NULL, else
\* visit_some(self), which deserializes the T of Option<T>
OptionArm(t, b, pk) ==
    IF pk.v = NULL THEN Des("Ok", <<>>, pk.p, pk.buffer)
    ELSE LET some == deserialize(t.of, b, pk.p, pk.buffer)
         IN  IF some.res # "Ok" THEN some
             ELSE Des("Ok", <<some.v>>, some.p, some.buffer)

\* Deserialize::deserialize of the type t: deserialize_u32, deserialize_option,
\* or through fn deserialize parse_value
deserialize(t, b, p, buf) ==
    IF t.k = "u32" THEN deserialize_u32(b, p, buf)
    ELSE LET pk == peek(b, p, buf)
         IN  IF pk.res # "Ok" THEN pk
             ELSE IF t.k = "opt" THEN OptionArm(t, b, pk)
             ELSE ParseArm(t, b, pk)

\* the encodings deserialized, each with the number n of bytes its value
\* takes and the value v encoded: NULL and the tiny integers as Option<u32>,
\* and integers, strings, lists and maps with and without optional elements
SerdeValues ==
    {[t |-> "Option<u32>", b |-> <<m>>, n |-> 1,
      v |-> IF m = NULL THEN <<>> ELSE <<W64(m)>>] : m \in (0..127) \cup {NULL}}
    \cup {[t |-> "Option<u32>", b |-> <<201, 0, 128>>, n |-> 3, v |-> <<W64(128)>>],
          [t |-> "u32", b |-> <<1>>, n |-> 1, v |-> W64(1)],
          [t |-> "u32", b |-> <<201, 0, 128>>, n |-> 3, v |-> W64(128)],
          [t |-> "u32", b |-> <<203, 0, 0, 0, 0, 255, 255, 255, 255>>, n |-> 9,
           v |-> <<0, 0, 65535, 65535>>],
          [t |-> "String", b |-> <<129, 97>>, n |-> 2, v |-> <<97>>],
          [t |-> "String", b |-> <<208, 2, 97, 98>>, n |-> 4, v |-> <<97, 98>>],
          [t |-> "Vec<u32>", b |-> <<144>>, n |-> 1, v |-> <<>>],
          [t |-> "Vec<u32>", b |-> <<146, 1, 2>>, n |-> 3, v |-> <<W64(1), W64(2)>>],
          [t |-> "Vec<u32>", b |-> <<212, 2, 201, 0, 128, 2>>, n |-> 6,
           v |-> <<W64(128), W64(2)>>],
          [t |-> "Vec<u32>", b |-> <<177, 112, 5>>, n |-> 3, v |-> <<W64(112), W64(5)>>],
          [t |-> "Vec<String>", b |-> <<146, 129, 97, 128>>, n |-> 4, v |-> <<<<97>>, <<>>>>],
          [t |-> "Vec<Vec<u32>>", b |-> <<146, 145, 1, 144>>, n |-> 4,
           v |-> <<<<W64(1)>>, <<>>>>],
          [t |-> "Vec<Option<u32>>", b |-> <<144>>, n |-> 1, v |-> <<>>],
          [t |-> "Vec<Option<u32>>", b |-> <<145, 1>>, n |-> 2, v |-> <<<<W64(1)>>>>],
          [t |-> "Vec<Option<u32>>", b |-> <<145, 192>>, n |-> 2, v |-> <<<<>>>>],
          [t |-> "Vec<Option<u32>>", b |-> <<146, 1, 2>>, n |-> 3,
           v |-> <<<<W64(1)>>, <<W64(2)>>>>],
          [t |-> "Vec<Option<u32>>", b |-> <<146, 1, 192>>, n |-> 3,
           v |-> <<<<W64(1)>>, <<>>>>],
          [t |-> "Vec<Option<u32>>", b |-> <<146, 192, 1>>, n |-> 3,
           v |-> <<<<>>, <<W64(1)>>>>],
          [t |-> "Vec<Option<u32>>", b |-> <<146, 192, 192>>, n |-> 3, v |-> <<<<>>, <<>>>>],
          [t |-> "Vec<Option<u32>>", b |-> <<212, 3, 192, 1, 192>>, n |-> 5,
           v |-> <<<<>>, <<W64(1)>>, <<>>>>],
          [t |-> "BTreeMap<String, u32>", b |-> <<162, 129, 98, 2, 129, 97, 1>>, n |-> 7,
           v |-> <<<<<<97>>, W64(1)>>, <<<<98>>, W64(2)>>>>],
          [t |-> "BTreeMap<String, Option<u32>>", b |-> <<161, 129, 97, 192>>, n |-> 4,
           v |-> <<<<<<97>>, <<>>>>>>],
          [t |-> "BTreeMap<String, Option<u32>>", b |-> <<161, 129, 97, 1>>, n |-> 4,
           v |-> <<<<<<97>>, <<W64(1)>>>>>>],
          [t |-> "BTreeMap<String, Option<u32>>", b |-> <<162, 129, 97, 1, 129, 98, 192>>,
           n |-> 7, v |-> <<<<<<97>>, <<W64(1)>>>>, <<<<98>>, <<>>>>>>],
          [t |-> "BTreeMap<String, Option<u32>>", b |-> <<162, 129, 97, 192, 129, 98, 1>>,
           n |-> 7, v |-> <<<<<<97>>, <<>>>>, <<<<98>>, <<W64(1)>>>>>>]}

\* every other single byte, which is no encoding of an Option<u32>
SerdeOthers ==
    {[t |-> "Option<u32>", b |-> <<m>>, n |-> 0, v |-> <<>>] : m \in (128..255) \ {NULL}}

\* the bytes that follow a value in the reader
Followers == {<<>>, <<1>>, <<192>>}

\* the call that deserializes the type named t
Call(t) == "from_reader::<" \o t \o ", _>"

\* from_reader::<T, _>(&mut Cursor::new(value ++ follower))
From_reader ==
    /\ outcome.res = "none"
    /\ \E i \in SerdeValues \cup SerdeOthers, f \in Followers :
          Decoding(Call(i.t), WholeReads, i.b \o f,
                   deserialize(SerdeType(i.t), i.b \o f, 0, <<>>))

(***************************************************************************)
(* The marker tables and the classes of a byte                             *)
(***************************************************************************)

\* the markers that are one exact byte, and the classes told by the high
\* nibble
ExactMarkers ==
    {"NULL", "TRUE", "FALSE", "FLOAT", "INT_8", "INT_16", "INT_32", "INT_64",
     "STRING_8", "STRING_16", "STRING_32", "LIST_8", "LIST_16", "LIST_32",
     "MAP_8", "MAP_16", "MAP_32", "STRUCT_8", "STRUCT_16"}
TinyMarkers == {"TINY_STRING", "TINY_LIST", "TINY_MAP", "TINY_STRUCT"}

\* marker.rs: the constants, the nibbles as the classifiers compare them
\* (`b >> 4 == m::TINY_STRING_NIBBLE >> 4`)
MarkerRs ==
    [NULL |-> NULL, TRUE |-> TRUE_, FALSE |-> FALSE_, FLOAT |-> FLOAT,
     INT_8 |-> INT_8, INT_16 |-> INT_16, INT_32 |-> INT_32, INT_64 |-> INT_64,
     STRING_8 |-> STRING_8, STRING_16 |-> STRING_16, STRING_32 |-> STRING_32,
     LIST_8 |-> LIST_8, LIST_16 |-> LIST_16, LIST_32 |-> LIST_32,
     MAP_8 |-> MAP_8, MAP_16 |-> MAP_16, MAP_32 |-> MAP_32,
     STRUCT_8 |-> STRUCT_8, STRUCT_16 |-> STRUCT_16,
     TINY_STRING |-> TINY_STRING_NIBBLE \div 16, TINY_LIST |-> TINY_LIST_NIBBLE \div 16,
     TINY_MAP |-> TINY_MAP_NIBBLE \div 16, TINY_STRUCT |-> TINY_STRUCT_NIBBLE \div 16]

\* markers.rs: the constants as that file gives them, the nibbles 0b1000 ..
\* 0b1011 being the high nibble itself
MarkersRs ==
    [NULL |-> 192, TRUE |-> 195, FALSE |-> 194, FLOAT |-> 193,
     INT_8 |-> 200, INT_16 |-> 201, INT_32 |-> 202, INT_64 |-> 203,
     STRING_8 |-> 208, STRING_16 |-> 209, STRING_32 |-> 210,
     LIST_8 |-> 212, LIST_16 |-> 213, LIST_32 |-> 214,
     MAP_8 |-> 216, MAP_16 |-> 217, MAP_32 |-> 218,
     STRUCT_8 |-> 216, STRUCT_16 |-> 217,
     TINY_STRING |-> 8, TINY_LIST |-> 9, TINY_MAP |-> 10, TINY_STRUCT |-> 11]

\* the marker table of a file
MarkerTable(file) == IF file = "marker.rs" THEN MarkerRs ELSE MarkersRs

\* every class the byte belongs to under a table: the tests of the is_*
\* classifiers and of the arms of which, each made on its own
Classes(table, byte) ==
    {c \in ExactMarkers : byte = table[c]}
    \cup {c \in TinyMarkers : byte \div 16 = table[c]}
    \cup (IF is_tiny_int_pos(byte) THEN {"TINY_INT_POS"} ELSE {})
    \cup (IF is_tiny_int_neg(byte) THEN {"TINY_INT_NEG"} ELSE {})

\* a byte classified under the table of marker.rs or of markers.rs
Classify ==
    /\ outcome.res = "none"
    /\ \E byte \in 0..255, file \in {"marker.rs", "markers.rs"} :
          Decoding(file, WholeReads, <<byte>>,
                   DecodeOk(Classes(MarkerTable(file), byte), 0))

\* the decode calls made on the decoders
DNext ==
    \/ DecodeNew
    \/ Decode_i64
    \/ Decode_i32
    \/ Decode_i16
    \/ Decode_i8
    \/ Decode_u64
    \/ Decode_u32
    \/ Decode_u16
    \/ Decode_u8
    \/ Decode_String
    \/ Decode_Vec
    \/ Decode_BTreeMap
    \/ Decode_MyStruct
    \/ Decode_Tuple
    \/ Decode_MyEnum
    \/ Decode_Value
    \/ Parse_value
    \/ Decode_InitReply
    \/ Decode_RunReply
    \/ Decode_PullAllReply
    \/ From_reader
    \/ Classify

(***************************************************************************)
(* Connection: src/src/lib.rs (connect) and src/src/v1/connection.rs       *)
(*                                                                         *)
(* Here `stream` holds the bytes the server has sent and the client has    *)
(* not read yet, `closed` says that the server has closed its side, and    *)
(* `wire` is what the client has put on the socket.                        *)
(***************************************************************************)

\* lib.rs: the magic preamble and the versions proposed
PREAMBLE == <<96, 96, 176, 23>>
SUPPORTED_VERSIONS == <<1, 0, 0, 0>>

\* WriteBytesExt::write_u32::<BigEndian>
U32BE(n) ==
    <<(n \div 16777216) % 256, (n \div 65536) % 256, (n \div 256) % 256, n % 256>>

\* ReadBytesExt::read_u32::<BigEndian> of four bytes, the first below 128
ReadU32BE(q) == ((q[1] * 256 + q[2]) * 256 + q[3]) * 256 + q[4]

\* connect(): `data` after the preamble and the versions went through the cursor
Handshake ==
    FromSeq(PREAMBLE \o U32BE(SUPPORTED_VERSIONS[1]) \o U32BE(SUPPORTED_VERSIONS[2])
                     \o U32BE(SUPPORTED_VERSIONS[3]) \o U32BE(SUPPORTED_VERSIONS[4]))

\* the byte counts one stream.write(buf) may return for a buffer of n bytes
\* (Write::write may accept fewer bytes than it is given)
WriteSizes(n) == {k \in {1, n - 1, n} : 1 <= k /\ k <= n}

\* the agreed versions the server answers with
VersionReplies == {<<0, 0, 0, 0>>, <<0, 0, 0, 1>>, <<0, 0, 1, 0>>, <<1, 0, 0, 0>>}

RECURSIVE ToSeq(_)
\* the bytes of a vector, one element per byte
ToSeq(s) == IF s = <<>> THEN <<>> ELSE [i \in 1..s[1][2] |-> s[1][1]] \o ToSeq(Tail(s))

RECURSIVE AsSlice(_)
\* &data of the Vec<u8> that encode returned
AsSlice(w) ==
    IF w = <<>> THEN Empty
    ELSE Cat(Rep(w[1][1], w[1][2][3] * 65536 + w[1][2][4]), AsSlice(Tail(w)))

\* a Connection makes at most MaxRequests requests
MaxRequests == 2

\* before connect() is called
NInit ==
    /\ cpc = "new"
    /\ wire = Empty
    /\ agreed_version = <<0, 0, 0, 0>>
    /\ request = [name |-> "none", data |-> Empty, ret |-> <<>>]
    /\ chist = [hs |-> 0, rd |-> 0, reply |-> <<>>, calls |-> <<>>, begun |-> <<>>,
                nsent |-> 0, nreplied |-> 0, nret |-> 0]

\* connect(): the handshake is built and given to `stream.write(&data)`
ConnectWrite ==
    /\ cpc = "new"
    /\ \E k \in WriteSizes(BLen(Handshake)) :
          /\ wire' = Cat(wire, BTake(Handshake, k))
          /\ chist' = [chist EXCEPT !.hs = k]
    /\ cpc' = "handshake"
    /\ UNCHANGED <<agreed_version, request, tvars, cvars>>

\* the server answers the handshake with the version it agrees to
ServerVersion(v) ==
    /\ cpc = "handshake"
    /\ chist.reply = <<>>
    /\ ~closed
    /\ stream' = Cat(stream, FromSeq(v))
    /\ chist' = [chist EXCEPT !.reply = v]
    /\ UNCHANGED <<cpc, wire, agreed_version, request, cvars>>
    /\ UNCHANGED <<output_buffer, output_size, raw, closed, broken,
                   rpc, chunk_size, result, rres, last, hist>>

\* connect(): `let mut buf = [0u8; 4]; stream.read(&mut buf)`, read_u32 of buf,
\* then shutdown and Err(()) for version 0, Ok(Connection::new(stream)) otherwise
ConnectRead ==
    /\ cpc = "handshake"
    /\ BLen(stream) > 0 \/ closed
    /\ \E k \in ReadSizes(4, BLen(stream)) :
          LET buf == ToSeq(Cat(BTake(stream, k), Rep(0, 4 - k)))
          IN  /\ stream' = BDrop(stream, k)
              /\ agreed_version' = buf
              /\ cpc' = IF ReadU32BE(buf) = 0 THEN "refused" ELSE "ready"
              /\ chist' = [chist EXCEPT !.rd = k]
    /\ UNCHANGED <<wire, request, cvars>>
    /\ UNCHANGED <<output_buffer, output_size, raw, closed, broken,
                   rpc, chunk_size, result, rres, last, hist>>

\* the user agents, the queries and the encoded messages of the requests
UserAgents == {Bytes(MyClient)}
Queries == {Bytes(ReturnOne), Fill(97, W64(65536))}

\* the first call of init, run and pull_all behind encode(&message).unwrap():
\* self.transport.write(&data)
Request(name, data) ==
    /\ cpc = "ready"
    /\ Len(chist.calls) < MaxRequests
    /\ LET st == WriteOp(Sender, data)
       IN  /\ output_buffer' = st.output_buffer
           /\ output_size' = st.output_size
           /\ raw' = st.raw
    /\ request' = [name |-> name, data |-> data, ret |-> <<>>]
    /\ chist' = [chist EXCEPT !.calls = Append(@, data),
                              !.begun = Append(@, chist.nret)]
    /\ cpc' = "written"
    /\ UNCHANGED <<wire, agreed_version, cvars>>
    /\ UNCHANGED <<stream, closed, broken, rpc, chunk_size, result, rres, last, hist>>

\* pub fn init(&mut self, user_agent: &str), up to the write
ConnInit ==
    /\ cpc = "ready"
    /\ \E user_agent \in UserAgents :
          Request("init", AsSlice(InitEncode(<<>>, user_agent).w))

\* pub fn run(&mut self, query: &str), up to the write
ConnRun ==
    /\ cpc = "ready"
    /\ \E query \in Queries :
          Request("run", AsSlice(RunEncode(<<>>, query, <<>>).w))

\* pub fn pull_all(&mut self), up to the write
ConnPullAll ==
    /\ cpc = "ready"
    /\ Request("pull_all",
               AsSlice(emit_struct(<<>>, PULL_ALL_SIG, PULL_ALL_SIZE, <<>>).w))

\* a request that ends its message with flush(false)
ConnFlush_NoEnd ==
    /\ cpc = "written"
    /\ LET st == FlushOp(Sender, FALSE)
       IN  /\ output_buffer' = st.output_buffer
           /\ output_size' = st.output_size
           /\ raw' = st.raw
    /\ cpc' = "flushed"
    /\ UNCHANGED <<wire, agreed_version, request, chist, cvars>>
    /\ UNCHANGED <<stream, closed, broken, rpc, chunk_size, result, rres, last, hist>>

\* init, run, pull_all: self.transport.flush(true).unwrap()
ConnFlush ==
    /\ cpc = "written"
    /\ LET st == FlushOp(Sender, TRUE)
       IN  /\ output_buffer' = st.output_buffer
           /\ output_size' = st.output_size
           /\ raw' = st.raw
    /\ cpc' = "flushed"
    /\ UNCHANGED <<wire, agreed_version, request, chist, cvars>>
    /\ UNCHANGED <<stream, closed, broken, rpc, chunk_size, result, rres, last, hist>>

\* init, run, pull_all: self.transport.send().unwrap(), write_all succeeds
ConnSend ==
    /\ cpc = "flushed"
    /\ ~broken
    /\ wire' = Cat(wire, raw)
    /\ raw' = Empty
    /\ cpc' = "sent"
    /\ chist' = [chist EXCEPT !.nsent = @ + 1]
    /\ UNCHANGED <<agreed_version, request, cvars>>
    /\ UNCHANGED <<output_buffer, output_size, stream, closed, broken,
                   rpc, chunk_size, result, rres, last, hist>>

\* init, run, pull_all: self.transport.send().unwrap(), write_all fails and
\* unwrap panics
ConnSendErr ==
    /\ cpc = "flushed"
    /\ \E k \in (IF broken THEN {0} ELSE Prefixes(BLen(raw))) :
          wire' = Cat(wire, BTake(raw, k))
    /\ broken' = TRUE
    /\ cpc' = "panic"
    /\ UNCHANGED <<agreed_version, request, chist, cvars>>
    /\ UNCHANGED <<output_buffer, output_size, raw, stream, closed,
                   rpc, chunk_size, result, rres, last, hist>>

\* success and record messages as the server frames them, one chunk and the
\* terminator: SUCCESS {} and RECORD [] under 0xB1, and the same under 0xB2
ServerReplies ==
    {FromSeq(<<0, 3, 177, 112, 160, 0, 0>>), FromSeq(<<0, 3, 178, 112, 160, 0, 0>>),
     FromSeq(<<0, 3, 178, 113, 144, 0, 0>>)}

\* the server answers a request it has been sent
ServerSend(reply) ==
    /\ chist.nreplied < chist.nsent
    /\ ~closed
    /\ stream' = Cat(stream, reply)
    /\ chist' = [chist EXCEPT !.nreplied = @ + 1]
    /\ UNCHANGED <<cpc, wire, agreed_version, request, cvars>>
    /\ UNCHANGED <<output_buffer, output_size, raw, closed, broken,
                   rpc, chunk_size, result, rres, last, hist>>

\* the server closes the connection
ServerClose ==
    /\ cpc # "new"
    /\ Close

\* init, run, pull_all: self.transport.receive() is called
ConnRecvCall ==
    /\ cpc = "sent"
    /\ rpc = "idle"
    /\ RecvCall

\* receive() inside the request: a length prefix
ConnRecvHeader ==
    /\ cpc = "sent"
    /\ RecvHeader

\* receive() inside the request: a chunk body
ConnRecvBody ==
    /\ cpc = "sent"
    /\ RecvBody

\* the type the request decodes the reply into
ReplyType(name) ==
    CASE name = "init" -> InitData
      [] name = "run" -> RunData
      [] name = "pull_all" -> PullAllData

\* what the request makes of the result of receive(): both unwraps
Returned(name, rr, r) ==
    IF rr = "Err" \/ r.res # "Ok" THEN [pc |-> "panic", ret |-> <<>>]
    ELSE [pc |-> "ready", ret |-> <<r.v>>]

\* init, run, pull_all: receive() has returned; `.unwrap()`, then
\* decode(&mut Cursor::new(data)).unwrap() and the Message is returned
ConnReturn ==
    /\ cpc = "sent"
    /\ rpc = "done"
    /\ LET r == Returned(request.name, rres,
                         DecodeMessage(ReplyType(request.name), ToSeq(result), 0,
                                       WholeReads))
       IN  /\ cpc' = r.pc
           /\ request' = [request EXCEPT !.ret = r.ret]
    /\ rpc' = "idle"
    /\ chist' = [chist EXCEPT !.nret = @ + 1]
    /\ UNCHANGED <<wire, agreed_version, cvars>>
    /\ UNCHANGED <<output_buffer, output_size, raw, stream, closed, broken,
                   chunk_size, result, rres, last, hist>>

\* connect() and the requests of the Connection it returns, with the server
NNext ==
    \/ ConnectWrite
    \/ \E v \in VersionReplies : ServerVersion(v)
    \/ ConnectRead
    \/ ConnInit
    \/ ConnRun
    \/ ConnPullAll
    \/ ConnFlush
    \/ ConnSend
    \/ ConnSendErr
    \/ \E reply \in ServerReplies : ServerSend(reply)
    \/ ServerClose
    \/ ConnRecvCall
    \/ ConnRecvHeader
    \/ ConnRecvBody
    \/ ConnReturn

\* the state of the codec before any call
CInit ==
    /\ writer = <<>>
    /\ emitted = [op |-> "new", n |-> 0, v |-> W64(0), f |-> <<>>, before |-> <<>>]
    /\ map = <<>>
    /\ ins = <<>>
    /\ value = VNull
    /\ sbuf = <<>>
    /\ decoded = [res |-> "none", v |-> VNull]
    /\ eresult = "Ok"
    /\ source = <<>>
    /\ target = [t |-> "none", chunk |-> 0]
    /\ outcome = DecodeResult("none", <<>>, 0, "", "")


Init == TInit /\ CInit /\ NInit

Next == TNext

Spec == Init /\ [][Next]_vars

SpecSender == Init /\ [][SNext]_vars

SpecEncoder == Init /\ [][ENext]_vars

SpecMap == Init /\ [][MNext]_vars

SpecValue == Init /\ [][VNext]_vars

SpecClient == Init /\ [][KNext]_vars

SpecStruct == Init /\ [][XNext]_vars

SpecDecoder == Init /\ [][DNext]_vars

SpecConnection == Init /\ [][NNext]_vars

SpecRoundTrip == Init /\ [][RNext]_vars

(***************************************************************************)
(* Properties of the transport                                             *)
(***************************************************************************)

RECURSIVE ParseChunks(_)
\* the chunk lengths of a byte string read as `u16 length + payload` frames;
\* -1 marks bytes that are no complete frame
ParseChunks(s) ==
    IF s = <<>> THEN <<>>
    ELSE IF BLen(s) < 2 THEN <<-1>>
    ELSE LET n == ReadU16BE(s)
         IN  IF BLen(s) < 2 + n THEN <<-1>>
             ELSE <<n>> \o ParseChunks(BDrop(s, 2 + n))

RECURSIVE SumSeq(_)
SumSeq(q) == IF q = <<>> THEN 0 ELSE q[1] + SumSeq(Tail(q))

\* the frames put in raw since the flush-free run of writes began
EpochChunks == ParseChunks(BDrop(hist.produced, hist.epStart))

\* those of them that carry data
EpochData == SelectSeq(EpochChunks, LAMBDA n : n # 0)

\* C3: after a run of writes with no explicit flush in between and one flush,
\* every data chunk emitted carries 1..65535 payload bytes, all but the last
\* carry exactly 65535, together they carry every byte written; one write of
\* 65535 bytes gives one 65535-byte chunk, one write of 65536 bytes gives a
\* 65535-byte chunk and a 1-byte chunk.
C3_ChunkSplitting ==
    hist.epClosed =>
        LET c == EpochData
        IN  /\ \A i \in 1..Len(c) : 1 <= c[i] /\ c[i] <= 65535
            /\ \A i \in 1..(Len(c) - 1) : c[i] = 65535
            /\ SumSeq(c) = SumSeq(hist.epWrites)
            /\ (hist.epWrites = <<65535>> => c = <<65535>>)
            /\ (hist.epWrites = <<65536>> => c = <<65535, 1>>)

C3_Witness ==
    /\ hist.epClosed
    /\ hist.epWrites = <<65536>>
    /\ EpochData = <<65535, 1>>

\* C4: flush(end_of_message) appends one chunk (big-endian length of the
\* buffered bytes, then those bytes) iff the un-sent buffer is non-empty, then
\* 0x00 0x00 iff end_of_message, and leaves the un-sent buffer empty;
\* flush(false) on an empty buffer changes nothing; a zero-length chunk is in
\* raw only as an end-of-message terminator.
C4_FlushEffect ==
    /\ [][last'.op = "flush" =>
            LET chunk == IF BLen(output_buffer) > 0
                         THEN Cat(U16BE(BLen(output_buffer)), output_buffer)
                         ELSE Empty
                term == IF last'.eom THEN FromSeq(<<0, 0>>) ELSE Empty
            IN  /\ raw' = Cat(raw, Cat(chunk, term))
                /\ output_buffer' = Empty
                /\ output_size' = 0]_vars
    /\ [](LET all == ParseChunks(hist.produced)
          IN  Len(SelectSeq(all, LAMBDA n : n = 0)) = Len(hist.msgs))

C4_Witness ==
    /\ last.op = "flush"
    /\ last.eom
    /\ BLen(raw) > 4
    /\ BTake(BDrop(raw, BLen(raw) - 2), 2) = FromSeq(<<0, 0>>)

C2_RoundTrip ==
    (rpc = "done" /\ rres = "Ok" /\ hist.nrecv <= hist.nsent)
        => result = hist.msgs[hist.nrecv]

\* what a receive() that starts at the head of d has to return and to
\* consume: the payloads up to the first zero length, or up to the end of d
\* when d ends where a length prefix is due
RECURSIVE RefMessage(_)
RefMessage(d) ==
    IF BLen(d) < 2 THEN [payload |-> Empty, used |-> BLen(d), ok |-> TRUE]
    ELSE LET n == ReadU16BE(d)
         IN  IF n = 0 THEN [payload |-> Empty, used |-> 2, ok |-> TRUE]
             ELSE IF BLen(d) < 2 + n
                  THEN [payload |-> Empty, used |-> BLen(d), ok |-> FALSE]
                  ELSE LET r == RefMessage(BDrop(d, 2 + n))
                       IN  [payload |-> Cat(BTake(BDrop(d, 2), n), r.payload),
                            used |-> 2 + n + r.used,
                            ok |-> r.ok]

\* C5: receive() returns the payloads, in order, of the chunks before the first
\* zero length prefix and reads nothing after it; a clean end-of-stream where a
\* length prefix is due ends the message the same way, without an error.
C5_ReceiveStopsAtTerminator ==
    (rpc = "done" /\ rres = "Ok") =>
        LET r == RefMessage(BDrop(hist.wire, hist.rxStart))
        IN  /\ r.ok
            /\ result = r.payload
            /\ hist.rxUsed = hist.rxStart + r.used

\* C6: after a non-zero length prefix receive() reads exactly that many payload
\* bytes or fails with a truncation error; the message it returns holds only
\* bytes that were received from the stream.
C6_NoPhantomBytes ==
    (rpc \in {"hdr", "done"} /\ rres # "Err") => result = hist.got

(***************************************************************************)
(* Properties of the encoder                                               *)
(***************************************************************************)

\* the integer tiers, narrowest first, each with its marker bytes and the
\* number of value bytes
IntTiers == <<[m |-> <<>>, w |-> 1], [m |-> <<200>>, w |-> 1], [m |-> <<201>>, w |-> 2],
              [m |-> <<202>>, w |-> 4], [m |-> <<203>>, w |-> 8]>>

\* the i64 a big-endian two's-complement byte string of 1, 2, 4 or 8 bytes holds
SignedOf(q) ==
    LET neg == q[1] >= 128
        ext == IF neg THEN 65535 ELSE 0
    IN  IF Len(q) = 1 THEN <<ext, ext, ext, (IF neg THEN 65280 ELSE 0) + q[1]>>
        ELSE IF Len(q) = 2 THEN <<ext, ext, ext, q[1] * 256 + q[2]>>
        ELSE IF Len(q) = 4 THEN <<ext, ext, q[1] * 256 + q[2], q[3] * 256 + q[4]>>
        ELSE <<q[1] * 256 + q[2], q[3] * 256 + q[4], q[5] * 256 + q[6], q[7] * 256 + q[8]>>

\* tier i can hold v: the tiny tier holds -16..127, the others what fits their width
TierHolds(i, v) ==
    IF i = 1 THEN I64LE(W64(-16), v) /\ I64LE(v, W64(127))
    ELSE IF i = 2 THEN I64LE(W64(-128), v) /\ I64LE(v, W64(127))
    ELSE IF i = 3 THEN I64LE(W64(-32768), v) /\ I64LE(v, W64(32767))
    ELSE IF i = 4 THEN I64LE(<<65535, 65535, 32768, 0>>, v) /\ I64LE(v, W64(2147483647))
    ELSE TRUE

\* q is the encoding of v in tier i
IsIntEncoding(q, i, v) ==
    /\ Len(q) = Len(IntTiers[i].m) + IntTiers[i].w
    /\ SubSeq(q, 1, Len(IntTiers[i].m)) = IntTiers[i].m
    /\ SignedOf(SubSeq(q, Len(IntTiers[i].m) + 1, Len(q))) = v

\* the narrowest tier that can hold v
NarrowestTier(v) ==
    CHOOSE i \in 1..5 : TierHolds(i, v) /\ \A j \in 1..(i - 1) : ~TierHolds(j, v)

\* marker of tier i, then the low bytes of v, most significant first
TierBytes(i, v) == IntTiers[i].m \o SubSeq(BE64(v), 9 - IntTiers[i].w, 8)

\* C8: every emit_i64(v) appends exactly one encoding of v, the one of the
\* narrowest tier that can hold v (one byte for -16..127, 0xC8 and one byte
\* for -128..-17, 0xC9 and two bytes within 16 bits, 0xCA and four within 32
\* bits, 0xCB and eight otherwise), and the value bytes written hold v.
C8_CanonicalInt ==
    emitted.op = "emit_i64" =>
        LET i == NarrowestTier(emitted.v)
            q == TierBytes(i, emitted.v)
        IN  /\ IsIntEncoding(q, i, emitted.v)
            /\ writer = Join(emitted.before, Bytes(q))

\* i64::MIN has been encoded behind an earlier item, in nine bytes
C8_Witness ==
    /\ emitted.op = "emit_i64" /\ emitted.v = <<32768, 0, 0, 0>>
    /\ emitted.before # <<>>
    /\ writer = Join(emitted.before, Bytes(<<203, 128, 0, 0, 0, 0, 0, 0, 0>>))

\* nibble and markers of the three sized kinds
SizeTiers ==
    [emit_str |-> [nib |-> 128, m |-> <<208, 209, 210>>],
     emit_seq |-> [nib |-> 144, m |-> <<212, 213, 214>>],
     emit_map |-> [nib |-> 160, m |-> <<216, 217, 218>>]]

\* the narrowest header for size n
HeaderOf(k, n) ==
    IF U64LE(n, W64(15)) THEN <<k.nib + n[4]>>
    ELSE IF U64LE(n, W64(255)) THEN <<k.m[1], n[4]>>
    ELSE IF U64LE(n, W64(65535)) THEN <<k.m[2]>> \o LimbBytes(n[4])
    ELSE <<k.m[3]>> \o LimbBytes(n[3]) \o LimbBytes(n[4])

\* the size a header declares
DeclaredSize(k, h) ==
    IF Len(h) = 1 THEN W64(h[1] - k.nib)
    ELSE IF Len(h) = 2 THEN W64(h[2])
    ELSE IF Len(h) = 3 THEN W64(h[2] * 256 + h[3])
    ELSE <<0, 0, h[2] * 256 + h[3], h[4] * 256 + h[5]>>

\* the header law for the last emit_str, emit_seq or emit_map call
HeaderLaw ==
    LET k == SizeTiers[emitted.op]
        h == HeaderOf(k, emitted.v)
    IN  /\ DeclaredSize(k, h) = emitted.v
        /\ Size(emitted.f) = emitted.v
        /\ writer = Join(Join(emitted.before, Bytes(h)), emitted.f)

\* C9: every string, list and map of size n is written as the narrowest
\* header that fits n (nibble for n <= 15, 8-bit marker and one byte up to
\* 255, 16-bit marker and two bytes up to 65535, 32-bit marker and four bytes
\* from 65536 on), declaring n, followed by exactly n body items.
C9_NarrowestHeader ==
    emitted.op \in {"emit_str", "emit_seq", "emit_map"} => HeaderLaw

\* the header law for the sizes a 32-bit length can declare
HeaderLawUpTo32 ==
    (/\ emitted.op \in {"emit_str", "emit_seq", "emit_map"}
     /\ U64LE(emitted.v, <<0, 0, 65535, 65535>>)) => HeaderLaw

RECURSIVE LastValue(_, _)
\* the value of the last insert call for key k
LastValue(q, k) ==
    IF q[Len(q)][1] = k THEN q[Len(q)][2] ELSE LastValue(SubSeq(q, 1, Len(q) - 1), k)

RECURSIVE Ascending(_)
\* the keys of the set K in ascending order
Ascending(K) ==
    IF K = {} THEN <<>>
    ELSE LET lo == CHOOSE a \in K : \A b \in K \ {a} : StrLT(a, b)
         IN  <<lo>> \o Ascending(K \ {lo})

RECURSIVE EntryBytes(_, _)
\* for each key of ks in turn: the key as a tiny String, then its value
EntryBytes(ks, q) ==
    IF ks = <<>> THEN <<>>
    ELSE Join(Join(Bytes(<<128 + Len(ks[1])>> \o ks[1]),
                   emit_u64(<<>>, LastValue(q, ks[1]))),
              EntryBytes(Tail(ks), q))

\* C10: the size field of an encoded map is its number of entries, and the
\* entries follow in ascending key order, each key as a String and then its
\* value, whatever the order of the insert calls; the bytes depend on the
\* entries only.
C10_MapEncoding ==
    emitted.op = "encode_map" =>
        LET K == {ins[i][1] : i \in 1..Len(ins)}
        IN  writer = Join(Bytes(<<160 + Cardinality(K)>>), EntryBytes(Ascending(K), ins))

\* a map of two entries, inserted in descending key order, has been encoded
C10_Witness ==
    /\ emitted.op = "encode_map"
    /\ Len(map) = 2 /\ Len(ins) = 2
    /\ StrLT(ins[2][1], ins[1][1])

(***************************************************************************)
(* Properties of Value, Serializer and Builder                             *)
(***************************************************************************)

\* C1: for every Value tree, building a Value from the bytes that serializing
\* the tree produced succeeds and yields a Value equal to the tree.
C1_ValueRoundTrip ==
    decoded.res # "none" => decoded = [res |-> "Ok", v |-> value]

RECURSIVE NoEntryNoStructure(_)
\* v holds no Structure and no Map that has entries
NoEntryNoStructure(v) ==
    /\ v.t # "Structure"
    /\ v.t = "Map" => v.c = <<>>
    /\ \A i \in 1..Len(v.c) : NoEntryNoStructure(v.c[i])

\* the round trip of the trees made of scalars, lists and empty maps
RoundTripOfLists ==
    (decoded.res # "none" /\ NoEntryNoStructure(value))
        => decoded = [res |-> "Ok", v |-> value]


(***************************************************************************)
(* Properties of structures and client messages                            *)
(***************************************************************************)

\* tag and field count of each client message
MessageTag ==
    [Init |-> 1, Run |-> 16, DiscardAll |-> 47, PullAll |-> 63, AckFailure |-> 15]
MessageFields ==
    [Init |-> 1, Run |-> 2, DiscardAll |-> 0, PullAll |-> 0, AckFailure |-> 0]

\* the encoded fields of the message last encoded, in order
MessageBody ==
    CASE emitted.op = "Init" -> emit_str(<<>>, emitted.f)
      [] emitted.op = "Run" ->
            emit_map(emit_str(<<>>, emitted.f), W64(Len(map)), EncodeParams(<<>>, map))
      [] OTHER -> <<>>

\* C11: every client message encodes, without error, as the byte 0xB0 + field
\* count, the tag byte, and then its fields in order and nothing else: INIT is
\* tag 0x01 with the client name, RUN tag 0x10 with the statement and the
\* parameter map, DISCARD_ALL 0x2F, PULL_ALL 0x3F and ACK_FAILURE 0x0F with no
\* field.
C11_ClientMessages ==
    emitted.op \in DOMAIN MessageTag =>
        /\ eresult = "Ok"
        /\ writer = Join(Bytes(<<176 + MessageFields[emitted.op],
                                 MessageTag[emitted.op]>>), MessageBody)

\* PULL_ALL is [0xB0, 0x3F]
C11_PullAll == emitted.op = "PullAll" => Plain(writer) = <<176, 63>>

\* a RUN with two parameters has been encoded
C11_Witness ==
    /\ emitted.op = "Run"
    /\ emitted.f = Bytes(ReturnOne)
    /\ Len(map) = 2
    /\ Plain(writer)[1] = 178
    /\ Plain(writer)[2] = 16

\* INIT("MyClient/1.0") has been encoded as [0xB1, 0x01, 0x8C] and the name
C11_WitnessInit ==
    /\ emitted.op = "Init"
    /\ Plain(writer) = <<177, 1, 140>> \o MyClient

\* emit_struct was the last call, for a structure whose field count lies in lo..hi
StructEmitted(lo, hi) ==
    /\ emitted.op = "emit_struct"
    /\ starts_with(emitted.f, STRUCTURE_PREFIX)
    /\ U64LE(W64(lo), emitted.v)
    /\ U64LE(emitted.v, W64(hi))

\* the header of the 8-bit and 16-bit structure tiers: marker, field count, tag
TierHeader(len, tag) ==
    IF U64LE(len, W64(255)) THEN <<220, AsU8(len), tag>>
    ELSE <<221>> \o BE16(len) \o <<tag>>

\* the structure event Builder::read_next reads from the header emit_struct
\* writes for the last call
HeaderRead ==
    LET h == Plain(emit_struct(<<>>, emitted.f, emitted.v, <<>>).w)
    IN  read_next(h, 1, h[1])

\* C12: a structure with 16 to 255 fields is written as 0xDC, the 1-byte field
\* count, the tag; one with 256 to 65535 fields as 0xDD, the 2-byte big-endian
\* field count, the tag; the fields follow, and the decoder reads tag and field
\* count back from the header.
C12_StructureTiers ==
    StructEmitted(16, 65535) =>
        /\ eresult = "Ok"
        /\ writer = Join(emitted.before,
                         Join(Bytes(TierHeader(emitted.v, emitted.f[Len(emitted.f)])),
                              Fill(NULL, emitted.v)))
        /\ HeaderRead.e = "Struct"
        /\ W64(HeaderRead.size) = emitted.v
        /\ HeaderRead.s = emitted.f[Len(emitted.f)]

\* Builder::read_next reads back the tag and the field count emit_struct wrote
C12_BuilderReadsHeader ==
    StructEmitted(0, 65535) =>
        /\ HeaderRead.e = "Struct"
        /\ W64(HeaderRead.size) = emitted.v
        /\ HeaderRead.s = emitted.f[Len(emitted.f)]

\* the 8-bit and 16-bit tiers as emit_struct writes them: marker, tag, field count
C12_TagBeforeCount ==
    StructEmitted(16, 65535) =>
        writer = Join(emitted.before,
                      Join(Bytes(<<TierHeader(emitted.v, 0)[1], emitted.f[Len(emitted.f)]>>
                                 \o (IF U64LE(emitted.v, W64(255)) THEN <<AsU8(emitted.v)>>
                                     ELSE BE16(emitted.v))),
                           Fill(NULL, emitted.v)))

\* the last call serialized a structure of emitted.v fields
StructureSerialized ==
    \/ emitted.op = "emit_struct" /\ starts_with(emitted.f, STRUCTURE_PREFIX)
    \/ emitted.op = "serialize_struct"
    \/ emitted.op = "Value::Structure"

\* C13: serializing a structure with more than 65535 fields returns
\* InvalidStructureLength and writes nothing, so no header with a truncated
\* field count exists; a structure with at most 65535 fields serializes with Ok.
C13_StructureLength ==
    StructureSerialized =>
        IF U64LE(emitted.v, W64(65535))
        THEN eresult = "Ok"
        ELSE eresult = "InvalidStructureLength" /\ writer = emitted.before

\* emit_struct and serialize_struct do refuse more than 65535 fields
C13_EncodersRefuse ==
    (emitted.op \in {"emit_struct", "serialize_struct"} /\ StructureSerialized) =>
        IF U64LE(emitted.v, W64(65535))
        THEN eresult = "Ok"
        ELSE eresult = "InvalidStructureLength" /\ writer = emitted.before

\* C20: encoding a char writes the encoding of the one-character string made
\* of it: the string header with the char's UTF-8 length, then its UTF-8 bytes.
C20_CharAsString ==
    emitted.op \in {"emit_char", "serialize_char"} =>
        /\ eresult = "Ok"
        /\ writer = Join(emitted.before,
                         Bytes(<<128 + Len(emitted.f)>> \o emitted.f))

\* for the chars below U+0080 emit_char does write the one-character string
C20_AsciiChar ==
    (emitted.op = "emit_char" /\ U64LE(emitted.v, W64(127))) =>
        writer = Join(emitted.before, Bytes(<<129>> \o emitted.f))

\* serialize_char writes the one-character string for every char
C20_SerializeChar ==
    emitted.op = "serialize_char" =>
        writer = Join(emitted.before, Bytes(<<128 + Len(emitted.f)>> \o emitted.f))

(***************************************************************************)
(* Properties of the typed decoder                                         *)
(***************************************************************************)

\* the integer targets and their widths
UnsignedBits == [u8 |-> 8, u16 |-> 16, u32 |-> 32, u64 |-> 64]
SignedBits == [i8 |-> 8, i16 |-> 16, i32 |-> 32, i64 |-> 64]
BitsOf(t) == IF t \in DOMAIN UnsignedBits THEN UnsignedBits[t] ELSE SignedBits[t]

\* the width of the integer encoding that starts with marker m (0 for the
\* tiny form, -1 when m starts no integer)
MarkerBits(m) ==
    IF m <= 127 \/ m >= 240 THEN 0
    ELSE IF m = 200 THEN 8
    ELSE IF m = 201 THEN 16
    ELSE IF m = 202 THEN 32
    ELSE IF m = 203 THEN 64
    ELSE -1

\* the source holds one complete integer encoding
WellFormedInt == 
    /\ source # <<>>
    /\ MarkerBits(source[1]) >= 0
    /\ Len(source) = 1 + MarkerBits(source[1]) \div 8

\* the integer a well-formed source encodes is negative: the sign bit of the
\* tiny form, or of the first value byte
NegativeSource ==
    IF MarkerBits(source[1]) = 0 THEN source[1] >= 240 ELSE source[2] >= 128

\* the name of the INT marker of the given width
IntName(bits) == 
    IF bits = 8 THEN "INT_8" ELSE IF bits = 16 THEN "INT_16"
    ELSE IF bits = 32 THEN "INT_32" ELSE "INT_64"

\* C16: decoding a well-formed negative integer, in the tiny form or under an
\* INT marker the target accepts, into u8, u16, u32 or u64 returns
\* UnexpectedInput naming the expected positive type, and no value.
C16_NegativeIntoUnsigned ==
    (/\ target.t \in DOMAIN UnsignedBits
     /\ WellFormedInt
     /\ MarkerBits(source[1]) <= UnsignedBits[target.t]
     /\ NegativeSource) =>
        /\ outcome.res = "UnexpectedInput"
        /\ outcome.exp = "+" \o IntName(UnsignedBits[target.t])
        /\ outcome.got = "-INTEGER"
        /\ outcome.v = <<>>

\* [INT_16, 0x80, 0x00] has been decoded into u32 and refused
C16_Witness ==
    /\ target.t = "u32"
    /\ source = <<201, 128, 0>>
    /\ outcome.res = "UnexpectedInput"

\* C17: decoding into an 8-, 16- or 32-bit integer target accepts the tiny
\* form and the INT markers up to the target's width, and refuses every wider
\* INT marker with UnexpectedMarker naming the expected and the found marker,
\* with nothing behind the marker consumed and no value.
C17_WiderMarkerRefused ==
    (/\ target.t \in {"i8", "i16", "i32", "u8", "u16", "u32"}
     /\ WellFormedInt) =>
        IF MarkerBits(source[1]) > BitsOf(target.t)
        THEN /\ outcome.res = "UnexpectedMarker"
             /\ outcome.exp = IntName(BitsOf(target.t))
             /\ outcome.got = IntName(MarkerBits(source[1]))
             /\ outcome.p = 1
             /\ outcome.v = <<>>
        ELSE outcome.res \in {"Ok", "UnexpectedInput"}

\* [INT_32, 0x00, 0x00, 0x00, 0x01] has been decoded into i16 and refused
C17_Witness ==
    /\ target.t = "i16"
    /\ source = <<202, 0, 0, 0, 1>>
    /\ outcome.res = "UnexpectedMarker"
    /\ outcome.got = "INT_32"

\* the size a string source declares (-1 when the source ends inside it), and
\* where its bytes start
DeclaredLen ==
    IF is_tiny_string(source[1]) THEN source[1] % 16
    ELSE read_len(source, 1, IF source[1] = 208 THEN 8 ELSE IF source[1] = 209 THEN 16 ELSE 32)
DataStart ==
    IF is_tiny_string(source[1]) THEN 1
    ELSE IF source[1] = 208 THEN 2 ELSE IF source[1] = 209 THEN 3 ELSE 5

\* a string has been decoded from a source that starts with a string marker
StringDecoded ==
    /\ target.t = "String"
    /\ source # <<>>
    /\ is_string(source[1])

\* C15: a string decoded with Ok is exactly the declared number of bytes, taken
\* from the input in order, however few bytes one read call hands out; when
\* the input ends before the declared count the result is UnexpectedEOF.
C15_ExactString ==
    StringDecoded =>
        IF DeclaredLen >= 0 /\ Len(source) - DataStart >= DeclaredLen
        THEN (outcome.res = "Ok") =>
                (outcome.v = SubSeq(source, DataStart + 1, DataStart + DeclaredLen))
        ELSE outcome.res = "UnexpectedEOF"

\* on a reader that hands out all it has, a string whose bytes are all there
\* is decoded as it is
C15_WholeReads ==
    (StringDecoded /\ target.chunk = WholeReads
       /\ DeclaredLen >= 0 /\ Len(source) - DataStart >= DeclaredLen
       /\ outcome.res = "Ok") =>
        outcome.v = SubSeq(source, DataStart + 1, DataStart + DeclaredLen)

\* the byte values that are no marker at all
NoMarker == (196..199) \cup (204..207) \cup {211, 215, 219} \cup (222..239)

\* the markers that may start a value of the target type t
ValidMarker(t, m) ==
    CASE t \in {"i8", "u8"} -> is_int8_or_lesser(m)
      [] t \in {"i16", "u16"} -> is_int16_or_lesser(m)
      [] t \in {"i32", "u32"} -> is_int32_or_lesser(m)
      [] t \in {"i64", "u64"} -> is_int64_or_lesser(m)
      [] t = "String" -> is_string(m)
      [] t \in {"Vec", "Tuple"} -> is_tiny_list(m) \/ m \in {LIST_8, LIST_16, LIST_32}
      [] t = "BTreeMap" -> is_map(m)
      [] t = "MyStruct" -> is_map(m) \/ is_structure(m)
      [] t = "MyEnum" -> is_string(m) \/ is_tiny_map(m)
      [] OTHER -> m \notin NoMarker

\* a decode call has met a first byte that is no valid marker for its target
BadMarker ==
    /\ outcome.res # "none"
    /\ source # <<>>
    /\ ~ValidMarker(target.t, source[1])

\* C14: every decoder (the typed PackstreamDecoder, the Builder of Values, the
\* serde Deserializer) answers a first byte that is no valid marker for the
\* value being decoded, the bytes that are no marker at all included, with a
\* marker-mismatch error; none panics or reaches an unreachable branch.
C14_MarkerMismatch == BadMarker => outcome.res = "UnexpectedMarker"

\* the typed decoder and the serde Deserializer do answer every such byte
\* with UnexpectedMarker, and read nothing behind it
C14_TypedAndSerde ==
    (BadMarker /\ target.t # "Value") =>
        /\ outcome.res = "UnexpectedMarker"
        /\ outcome.v = <<>>
        /\ outcome.p <= 1

\* the Builder reaches `_ => unreachable!()` on exactly the bytes that are no
\* marker, and no decoder panics anywhere else
C14_BuilderPanics ==
    outcome.res = "Panic" <=>
        (target.t = "Value" /\ source # <<>> /\ source[1] \in NoMarker)

\* the size declared behind the marker at the head of the source (for the
\* tiny forms in the marker), as read_seq, read_map and read_struct read it
DeclaredHeader ==
    LET m == source[1]
    IN  CASE m \in 144..191 -> DecodeOk(m % 16, 1)
          [] m \in {LIST_8, MAP_8, STRUCT_8} -> ReadSize(source, 1, 8)
          [] m \in {LIST_16, MAP_16, STRUCT_16} -> ReadSize(source, 1, 16)
          [] OTHER -> ReadSize(source, 1, 32)

\* a decode call has met a complete header of the given kind (a set of
\* markers) that declares a size other than n
WrongSize(t, markers, n) ==
    /\ target.t = t
    /\ source # <<>>
    /\ source[1] \in markers
    /\ DeclaredHeader.res = "Ok"
    /\ DeclaredHeader.v # n

\* the call was refused with UnexpectedInput(exp, got) right behind the
\* header, with no field decoded and no value
RefusedBehindHeader(exp, got) ==
    /\ outcome.res = "UnexpectedInput"
    /\ outcome.exp = exp
    /\ outcome.got = got
    /\ outcome.p = DeclaredHeader.p
    /\ outcome.v = <<>>

\* the markers of lists, and of maps and structures
ListMarkers == (144..159) \cup {LIST_8, LIST_16, LIST_32}
StructMarkers == (160..191) \cup {MAP_8, MAP_16, MAP_32, STRUCT_8, STRUCT_16}

\* a struct whose declared size is not the 3 fields of MyStruct
StructCount ==
    WrongSize("MyStruct", StructMarkers, 3) =>
        RefusedBehindHeader("MyStruct (3 fields)",
                            "? (" \o Decimal(DeclaredHeader.v) \o " fields)")

\* a tuple whose declared size is not the 3 fields of (u32, f64, String)
TupleCount ==
    WrongSize("Tuple", ListMarkers, 3) =>
        RefusedBehindHeader("Tuple3", "Tuple" \o Decimal(DeclaredHeader.v))

\* the first place where the keys k differ from the field names A, B, C
FirstWrong(k) == CHOOSE i \in 1..3 : k[i] # 64 + i /\ \A j \in 1..(i - 1) : k[j] = 64 + j

\* a map-encoded MyStruct of 3 entries whose keys are not A, B, C in order is
\* refused at the first wrong key with WrongField(key read, field expected)
WrongKey ==
    \A m \in {<<TINY_MAP_NIBBLE + 3>>, <<MAP_8, 3>>, <<MAP_16, 0, 3>>, <<MAP_32, 0, 0, 0, 3>>} :
        \A k \in {65, 66, 67, 68, 88, 97} \X {65, 66, 67} \X {65, 66, 67, 68} :
            (/\ target.t = "MyStruct"
             /\ source = m \o KeyedFields(k[1], k[2], k[3])
             /\ k # <<65, 66, 67>>) =>
                /\ outcome.res = "WrongField"
                /\ outcome.exp = <<k[FirstWrong(k)]>>
                /\ outcome.got = <<64 + FirstWrong(k)>>
                /\ outcome.v = <<>>

\* an enum variant under a wrapping map: a tiny map of a size other than 1 is
\* refused before the name is read, and a wider map marker is refused as well
EnumWrapper ==
    (target.t = "MyEnum" /\ source # <<>>) =>
        /\ (is_tiny_map(source[1]) /\ source[1] % 16 # 1) =>
              /\ outcome.res = "UnexpectedInput"
              /\ outcome.exp = "Map(1)"
              /\ outcome.got = "Map(" \o Decimal(source[1] % 16) \o ")"
              /\ outcome.p = 1
              /\ outcome.v = <<>>
        /\ source[1] \in {MAP_8, MAP_16, MAP_32} =>
              outcome.res = "UnexpectedMarker" /\ outcome.v = <<>>

\* C19: in the typed decode mode a struct or tuple whose declared size differs
\* from the number of fields expected is refused with a field-count error
\* before any field is decoded, a map-encoded struct whose next key is not the
\* expected field name is refused with WrongField, and an enum tuple variant
\* whose wrapping map has not size 1 is refused; none of them gives a value.
C19_ShapeChecked == StructCount /\ TupleCount /\ WrongKey /\ EnumWrapper

\* a MyStruct under a map header of 2 entries was refused for its field count
C19_WitnessStruct ==
    /\ target.t = "MyStruct"
    /\ source = <<TINY_MAP_NIBBLE + 2>> \o KeyedFields(65, 66, 67)
    /\ outcome.res = "UnexpectedInput"
    /\ outcome.got = "? (2 fields)"

\* a tuple under a list header of 4 items was refused for its length
C19_WitnessTuple ==
    /\ target.t = "Tuple"
    /\ source = <<TINY_LIST_NIBBLE + 4>> \o BareFields
    /\ outcome.res = "UnexpectedInput"
    /\ outcome.got = "Tuple4"

\* a MyStruct whose second key is C was refused as WrongField("C", "B")
C19_WitnessField ==
    /\ target.t = "MyStruct"
    /\ source = <<TINY_MAP_NIBBLE + 3>> \o KeyedFields(65, 67, 66)
    /\ outcome.res = "WrongField"
    /\ outcome.exp = <<67>>
    /\ outcome.got = <<66>>

\* the variant A(1, 2) under a tiny map of size 2 was refused
C19_WitnessEnum ==
    /\ target.t = "MyEnum"
    /\ source = <<TINY_MAP_NIBBLE + 2, TINY_STRING_NIBBLE + 1, 65, TINY_LIST_NIBBLE + 2, 1, 2>>
    /\ outcome.res = "UnexpectedInput"
    /\ outcome.got = "Map(2)"

\* the source holds one complete string, list or map: a header that declares
\* n, then n bytes of UTF-8 text, the items 1..n, or n of the entries of
\* MapBodies
WellFormedString ==
    /\ source # <<>> /\ is_string(source[1])
    /\ DeclaredLen >= 0
    /\ Len(source) = DataStart + DeclaredLen
    /\ from_utf8(SubSeq(source, DataStart + 1, Len(source)))
WellFormedList ==
    /\ source # <<>> /\ source[1] \in ListMarkers
    /\ DeclaredHeader.res = "Ok"
    /\ source = Take(source, 0, DeclaredHeader.p) \o Counting(DeclaredHeader.v)
WellFormedMap ==
    /\ source # <<>> /\ is_map(source[1])
    /\ DeclaredHeader.res = "Ok"
    /\ \E e \in MapBodies :
          /\ Len(e) = 3 * DeclaredHeader.v
          /\ source = Take(source, 0, DeclaredHeader.p) \o e

\* the header the encoder writes for n bytes of text: emit_str's output
\* without the text
StrHeader(n) ==
    LET w == Plain(emit_str(<<>>, Fill(97, W64(n))))
    IN  SubSeq(w, 1, Len(w) - n)

\* the canonical encoding of the value the source holds: the one the encoder
\* writes for it
Canonical ==
    IF WellFormedInt THEN Plain(emit_i64(<<>>, ReadMarked(source, 1, source[1], 64).v))
    ELSE IF WellFormedString
    THEN StrHeader(DeclaredLen) \o SubSeq(source, DataStart + 1, Len(source))
    ELSE IF WellFormedList
    THEN Plain(emit_seq(<<>>, W64(DeclaredHeader.v), <<>>))
            \o SubSeq(source, DeclaredHeader.p + 1, Len(source))
    ELSE Plain(emit_map(<<>>, W64(DeclaredHeader.v), <<>>))
            \o SubSeq(source, DeclaredHeader.p + 1, Len(source))

\* the target of the decode call can hold the value of the source: an integer
\* target as wide as the tier used (unsigned: no negative value), String, Vec
\* and BTreeMap for their kinds, and the untyped decoders for all of them
Holds ==
    \/ /\ WellFormedInt
       /\ \/ target.t \in {"Value", "parse_value"}
          \/ target.t \in DOMAIN SignedBits /\ MarkerBits(source[1]) <= SignedBits[target.t]
          \/ /\ target.t \in DOMAIN UnsignedBits
             /\ MarkerBits(source[1]) <= UnsignedBits[target.t]
             /\ ~NegativeSource
    \/ WellFormedString /\ target.t \in {"String", "Value", "parse_value"}
    \/ WellFormedList /\ target.t \in {"Vec", "Value", "parse_value"}
    \/ WellFormedMap /\ target.t \in {"BTreeMap", "Value", "parse_value"}

\* what the decoder of target gives for the bytes b
DecodeBy(t, b, chunk) ==
    CASE t = "i64" -> read_i64(b, 0) [] t = "i32" -> read_i32(b, 0)
      [] t = "i16" -> read_i16(b, 0) [] t = "i8" -> read_i8(b, 0)
      [] t = "u64" -> read_u64(b, 0) [] t = "u32" -> read_u32(b, 0)
      [] t = "u16" -> read_u16(b, 0) [] t = "u8" -> read_u8(b, 0)
      [] t = "String" -> read_str(b, 0, chunk)
      [] t = "Vec" -> DecodeVec(b, 0)
      [] t = "BTreeMap" -> DecodeBTreeMap(b, 0, chunk)
      [] t = "Value" -> Built(build(b))
      [] OTHER -> parse_value(b, chunk)

\* the value in a result: for parse_value the argument handed to the visitor
ValueOf(t, r) == IF t = "parse_value" THEN r.v[2] ELSE r.v

\* the call succeeded with the value that decoding the canonical encoding gives
AsCanonical ==
    /\ outcome.res = "Ok"
    /\ DecodeBy(target.t, Canonical, target.chunk).res = "Ok"
    /\ ValueOf(target.t, outcome)
         = ValueOf(target.t, DecodeBy(target.t, Canonical, target.chunk))

\* C18: decoding accepts a value in any size tier wide enough to hold it: for
\* every integer and every INT tier that holds it, and every string, list or
\* map of size n and every size tier that holds n, decoding succeeds and gives
\* the same value as decoding the canonical encoding.
C18_AnyTier == Holds => AsCanonical

\* the Builder has been given a map that has entries
BuiltMap == target.t = "Value" /\ WellFormedMap /\ DeclaredHeader.v > 0

\* it does hold when the reader fills every buffer it is given and the decoder
\* is not the Builder given a map that has entries
C18_WholeReads ==
    (Holds /\ target.chunk = WholeReads /\ ~BuiltMap) => AsCanonical

\* the Builder refuses every well-formed map that has entries, in every tier
C18_BuiltMapsRefused ==
    (BuiltMap /\ outcome.res # "none") => outcome.res = "UnexpectedInput"

\* the integer 1 under INT_64 was decoded into i64
C18_WitnessInt ==
    /\ target.t = "i64"
    /\ source = <<INT_64, 0, 0, 0, 0, 0, 0, 0, 1>>
    /\ Canonical = <<1>>
    /\ outcome = DecodeOk(W64(1), 9)

\* the list [1, 2] under LIST_32 was built into a Value
C18_WitnessList ==
    /\ target.t = "Value"
    /\ source = <<LIST_32, 0, 0, 0, 2, 1, 2>>
    /\ Canonical = <<TINY_LIST_NIBBLE + 2, 1, 2>>
    /\ outcome.res = "Ok"



(***************************************************************************)
(* Properties of the server messages                                       *)
(***************************************************************************)

\* the data type of the Message decoded last
ReplyData ==
    CASE target.t = "Message<BTreeMap<String, ()>>" -> InitData
      [] target.t = "Message<BTreeMap<String, Vec<String>>>" -> RunData
      [] target.t = "Message<Vec<u32>>" -> PullAllData

\* the source is a structure marker m, a tag byte and one field that decodes
\* as the data type, with nothing behind it
ReplyOf(m) ==
    /\ target.t \in {"Message<BTreeMap<String, ()>>",
                     "Message<BTreeMap<String, Vec<String>>>", "Message<Vec<u32>>"}
    /\ Len(source) >= 3
    /\ source[1] = m
    /\ DecodeT(ReplyData, source, 2, WholeReads).res = "Ok"
    /\ DecodeT(ReplyData, source, 2, WholeReads).p = Len(source)

\* the kind the protocol gives a tag
KindOf(tag) ==
    IF tag = 112 THEN <<"Success">>
    ELSE IF tag = 113 THEN <<"Record">>
    ELSE IF tag = 126 THEN <<"Ignored">>
    ELSE IF tag = 127 THEN <<"Failure">>
    ELSE <<"Unknown", tag>>

\* the Message of the tag and the field of the source has been decoded
ReplyDecoded ==
    /\ outcome.res = "Ok"
    /\ outcome.v.kind = KindOf(source[2])
    /\ outcome.v.data = DecodeT(ReplyData, source, 2, WholeReads).v
    /\ outcome.p = Len(source)

\* C28: a server reply encoded as a tiny structure with one field (0xB1, the
\* tag byte, the field) decodes into a Message whose kind is Success for tag
\* 0x70, Record for 0x71, Ignored for 0x7E, Failure for 0x7F and Unknown(tag)
\* for any other tag, and whose data is the decoded field.
C28_ServerReply == ReplyOf(177) => ReplyDecoded

\* C28, what the code does: every reply under the one-field marker 0xB1 is
\* refused for its field count (Message is read as a structure of 2 fields)
C28_OneFieldRefused ==
    ReplyOf(177) =>
        /\ outcome.res = "UnexpectedInput"
        /\ outcome.exp = "Message (2 fields)"
        /\ outcome.got = "? (1 fields)"

\* C28, what the code does: the same tag and field behind a marker that
\* declares two fields decode into the Message, for the tags 0x00 to 0x7F
C28_TwoFieldsDecoded == (ReplyOf(178) /\ source[2] < 128) => ReplyDecoded

C28_WitnessRefused ==
    /\ ReplyOf(177)
    /\ source = <<177, 112, 160>>
    /\ outcome.res = "UnexpectedInput"

C28_WitnessTwoFields ==
    /\ ReplyOf(178)
    /\ source[2] = 113
    /\ outcome.res = "Ok"
    /\ outcome.v.kind = <<"Record">>
    /\ outcome.v.data = <<W64(1), W64(200)>>

(***************************************************************************)
(* Properties of the connection                                            *)
(***************************************************************************)

\* the server has answered the handshake with a version other than 0
Agreed == chist.reply \notin {<<>>, <<0, 0, 0, 0>>}

\* connect() returns in this step
ConnectReturns == cpc = "handshake" /\ cpc' # "handshake"

\* C21: connect sends exactly 20 bytes before anything else goes on the wire,
\* the preamble 0x60 0x60 0xB0 0x17 and the versions 1, 0, 0, 0 as big-endian
\* 32-bit numbers; it returns a Connection iff the server's 4-byte reply is
\* non-zero; for the reply 0 it shuts the socket down and returns an error, so
\* no chunked message is ever sent on a connection whose handshake gave 0.
C21_Handshake ==
    /\ [](cpc # "new" =>
            BTake(wire, 20) = FromSeq(<<96, 96, 176, 23, 0, 0, 0, 1, 0, 0, 0, 0,
                                        0, 0, 0, 0, 0, 0, 0, 0>>))
    /\ [][ConnectReturns =>
            /\ cpc' = "ready" <=> Agreed
            /\ ~Agreed => cpc' = "refused"]_vars
    /\ [](chist.reply = <<0, 0, 0, 0>> => BLen(wire) <= 20 /\ cpc \in {"handshake", "refused"})

\* C21, what the code does when stream.write takes all 20 bytes and
\* stream.read fills the whole buffer: the claim as it stands
C21_WholeTransfers ==
    /\ []((cpc # "new" /\ chist.hs = 20) =>
            BTake(wire, 20) = FromSeq(<<96, 96, 176, 23, 0, 0, 0, 1, 0, 0, 0, 0,
                                        0, 0, 0, 0, 0, 0, 0, 0>>))
    /\ [][(ConnectReturns /\ chist'.rd \in {0, 4}) =>
            /\ cpc' = "ready" <=> Agreed
            /\ ~Agreed => cpc' = "refused"]_vars

\* C21, what the code does for every transfer: a reply of 0 is never followed
\* by a request, and a Connection is returned only for a non-zero reply
C21_NoTrafficAfterZero ==
    /\ chist.reply = <<0, 0, 0, 0>> =>
          /\ BLen(wire) = chist.hs
          /\ cpc \in {"handshake", "refused"}
    /\ cpc \notin {"new", "handshake", "refused"} => Agreed

\* a non-zero reply of which read returned the leading zero bytes only
C21_WitnessShortRead ==
    /\ cpc = "refused"
    /\ chist.reply = <<0, 0, 0, 1>>
    /\ chist.rd = 3
    /\ agreed_version = <<0, 0, 0, 0>>

\* a request on the wire behind a handshake that was cut short
C21_WitnessShortWrite ==
    /\ chist.hs = 19
    /\ cpc = "sent"
    /\ BLen(wire) > 19

\* the reply 1 read whole: a Connection
C21_WitnessAgreed ==
    /\ cpc = "ready"
    /\ chist.hs = 20
    /\ agreed_version = <<0, 0, 0, 1>>
    /\ chist.calls = <<>>

RECURSIVE Framed(_)
\* the message d as it has to stand on the wire: chunks of 1 to 65535 payload
\* bytes behind their big-endian lengths, then one zero length
Framed(d) ==
    IF BLen(d) = 0 THEN FromSeq(<<0, 0>>)
    ELSE LET n == IF BLen(d) < 65535 THEN BLen(d) ELSE 65535
         IN  Cat(Cat(U16BE(n), BTake(d, n)), Framed(BDrop(d, n)))

RECURSIVE FramedAll(_, _)
\* the first n messages of calls, framed one after the other
FramedAll(calls, n) ==
    IF n = 0 THEN Empty ELSE Cat(FramedAll(calls, n - 1), Framed(calls[n]))

\* the positions a request may move to from each position
RequestOrder ==
    [ready |-> {"written"}, written |-> {"flushed"}, flushed |-> {"sent", "panic"},
     sent |-> {"ready", "panic"}]

\* what the client has sent behind the handshake
Requests == BDrop(wire, chist.hs)

\* C22: every Connection request performs write of the whole encoded message,
\* flush(true), send and receive in this order and the next request does not
\* begin before receive has returned; the wire carries the requests in call
\* order, each followed by exactly one zero-length terminator, and never the
\* bytes of two requests interleaved.
C22_RequestSequence ==
    /\ [][(cpc' # cpc /\ cpc \in DOMAIN RequestOrder) => cpc' \in RequestOrder[cpc]]_vars
    /\ [][(cpc = "ready" /\ cpc' = "written") =>
            /\ rpc = "idle"
            /\ chist.nret = Len(chist.calls)
            /\ raw = Empty /\ output_buffer = Empty]_vars
    /\ [](cpc \in {"ready", "written", "flushed"} => rpc = "idle")
    /\ [](\A i \in 1..Len(chist.begun) : chist.begun[i] = i - 1)
    /\ [](LET full == FramedAll(chist.calls, chist.nsent)
          IN  /\ BTake(Requests, BLen(full)) = full
              /\ BLen(Requests) > BLen(full) =>
                    /\ cpc = "panic"
                    /\ Requests = BTake(FramedAll(chist.calls, chist.nsent + 1),
                                        BLen(Requests)))

C22_Witness ==
    /\ cpc = "sent"
    /\ chist.nsent = 2
    /\ BLen(chist.calls[1]) > 65535
    /\ BLen(chist.calls[2]) = 2
    /\ chist.nret = 1
    /\ Requests = Cat(Framed(chist.calls[1]), FromSeq(<<0, 2, 176, 63, 0, 0>>))

\* receive() makes a step, and the socket has failed
FailedRead == broken /\ rpc \in {"hdr", "body"} /\ rpc' # rpc

\* C23: when the stream reports a read or write failure during send or
\* receive, the operation returns that I/O error at once: receive performs no
\* further reads and returns no partial message, and send reports the failure
\* instead of success.
C23_IoErrorReturned ==
    /\ [][FailedRead => /\ rres' = "Err"
                        /\ rpc' = "done"
                        /\ stream' = stream
                        /\ hist'.rxUsed = hist.rxUsed]_vars
    /\ [][(last'.op = "send" /\ last' # last /\ (broken \/ closed \/ broken')) =>
            /\ last'.res = "Err"
            /\ raw' = raw]_vars
    /\ [](hist.how = "err" => rres = "Err" /\ rpc = "done")

\* a receive() that held the payload of a chunk when the read failed
C23_Witness ==
    /\ rres = "Err"
    /\ rpc = "done"
    /\ BLen(result) > 0
    /\ broken

\* a send that failed with a part of raw on the socket
C23_WitnessSend ==
    /\ last.op = "send"
    /\ last.res = "Err"
    /\ BLen(raw) > 0
    /\ BLen(hist.wire) > 0

RECURSIVE TotalLen(_)
\* the bytes of a sequence of messages, counted
TotalLen(q) == IF q = <<>> THEN 0 ELSE BLen(q[1]) + TotalLen(Tail(q))

\* C29: after every write or flush call, for any sequence of such calls,
\* output_size equals the number of bytes held in output_buffer and is
\* strictly less than 65535; so the 2-byte length in front of a chunk equals
\* the chunk's payload length and never wraps around.
C29_OutputSize ==
    /\ output_size = BLen(output_buffer)
    /\ output_size < 65535
    /\ LET chunks == ParseChunks(hist.produced)
       IN  /\ \A i \in 1..Len(chunks) : chunks[i] >= 0
           /\ SumSeq(chunks) + BLen(output_buffer)
                 = TotalLen(hist.msgs) + BLen(hist.msg)

\* a write has filled the buffer to one byte below the chunk size, behind a
\* chunk of 65535 bytes that an earlier write completed
C29_Witness ==
    /\ last.op = "write"
    /\ output_size = 65534
    /\ BLen(output_buffer) = 65534
    /\ 65535 \in {ParseChunks(hist.produced)[i] : i \in 1..Len(ParseChunks(hist.produced))}

(***************************************************************************)
(* Properties of the round trips                                           *)
(***************************************************************************)

\* an unsigned value has been encoded and the bytes decoded
UnsignedTrip ==
    /\ emitted.op \in {"emit_u8", "emit_u16", "emit_u32", "emit_u64"}
    /\ outcome.res # "none"

\* the value encoded lies in the upper half of the range of its type
UpperHalf ==
    CASE emitted.op = "emit_u8" -> U64LE(W64(128), emitted.v)
      [] emitted.op = "emit_u16" -> U64LE(W64(32768), emitted.v)
      [] emitted.op = "emit_u32" -> U64LE(<<0, 0, 32768, 0>>, emitted.v)
      [] emitted.op = "emit_u64" -> U64LE(<<32768, 0, 0, 0>>, emitted.v)

\* C24: for every value v of an unsigned integer type (u8, u16, u32, u64)
\* encoding v emits a complete, non-empty integer encoding, and decoding those
\* bytes into the same unsigned type returns v, the values of the upper half
\* of each type's range included.
C24_UnsignedRoundTrip ==
    UnsignedTrip =>
        /\ writer # <<>>
        /\ outcome.res = "Ok"
        /\ outcome.v = emitted.v
        /\ outcome.p = Len(source)

\* C24, what the code does: the values of the lower half of each type's
\* range make the round trip
C24_LowerHalf ==
    (UnsignedTrip /\ ~UpperHalf) =>
        /\ writer # <<>>
        /\ outcome.res = "Ok"
        /\ outcome.v = emitted.v
        /\ outcome.p = Len(source)

\* C24, what the code does: a value of the upper half is written one tier
\* wider than its type, which the decoder of the type refuses by the marker,
\* and a u64 above the largest i64 is not written at all
C24_UpperHalfRefused ==
    (UnsignedTrip /\ UpperHalf) =>
        IF emitted.op = "emit_u64"
        THEN writer = <<>> /\ outcome.res = "UnexpectedEOF"
        ELSE /\ outcome.res = "UnexpectedMarker"
             /\ source[1] = (CASE emitted.op = "emit_u8" -> 201
                               [] emitted.op = "emit_u16" -> 202
                               [] emitted.op = "emit_u32" -> 203)

C24_WitnessLower ==
    /\ UnsignedTrip
    /\ emitted.op = "emit_u16"
    /\ emitted.v = W64(32767)
    /\ outcome.v = W64(32767)

C24_WitnessUpper ==
    /\ UnsignedTrip
    /\ emitted.op = "emit_u8"
    /\ emitted.v = W64(200)
    /\ source = <<201, 0, 200>>
    /\ outcome.res = "UnexpectedMarker"

C24_WitnessNothingWritten ==
    /\ UnsignedTrip
    /\ emitted.v = <<65535, 65535, 65535, 65535>>
    /\ writer = <<>>

\* the bytes a value of the type under the option encodes to
EncodedAlone ==
    IF target.t = "Option<i64>" THEN emit_i64(<<>>, emitted.v[1])
    ELSE emit_str(<<>>, Bytes(emitted.v[1]))

\* C25: an absent optional value encodes as the single NULL byte 0xC0 and
\* decodes back to absent; Some(x) encodes as the encoding of x, and decoding
\* those bytes as an optional yields Some(x), x decoded from all of its bytes,
\* its marker byte included.
C25_OptionRoundTrip ==
    (emitted.op = "emit_option" /\ outcome.res # "none") =>
        /\ emitted.v = <<>> => source = <<192>>
        /\ emitted.v # <<>> => writer = EncodedAlone
        /\ outcome.res = "Ok"
        /\ outcome.v = emitted.v
        /\ outcome.p = Len(source)

\* C25, what the code does: None makes the round trip, and Some(x) is written
\* as x alone
C25_NoneRoundTrip ==
    (emitted.op = "emit_option" /\ outcome.res # "none") =>
        /\ emitted.v # <<>> => writer = EncodedAlone
        /\ emitted.v = <<>> =>
              /\ source = <<192>>
              /\ outcome.res = "Ok"
              /\ outcome.v = <<>>
              /\ outcome.p = 1

\* C25, what the code does: no Some(x) comes back, x is decoded from the bytes
\* behind its first byte
C25_SomeLosesMarker ==
    (emitted.op = "emit_option" /\ outcome.res # "none" /\ emitted.v # <<>>) =>
        /\ outcome.res = "Ok" => outcome.v # emitted.v
        /\ outcome = Some(DecodeAs(IF target.t = "Option<i64>" THEN "i64" ELSE "String",
                                   source, 1, WholeReads))

C25_WitnessNone ==
    /\ emitted.op = "emit_option"
    /\ emitted.v = <<>>
    /\ outcome.res = "Ok"
    /\ outcome.v = <<>>

\* Some(128), written C9 00 80, comes back as Some(0)
C25_WitnessSome ==
    /\ emitted.op = "emit_option"
    /\ emitted.v = <<W64(128)>>
    /\ source = <<201, 0, 128>>
    /\ outcome.res = "Ok"
    /\ outcome.v = <<W64(0)>>

(***************************************************************************)
(* Properties of the Deserializer's look-ahead buffer                      *)
(***************************************************************************)

\* from_reader has returned a value
Deserialized == target.t \in {Call(i.t) : i \in SerdeValues} /\ outcome.res = "Ok"

\* the encoding that stands in front of its follower in the source
ValuesAtFront ==
    {i \in SerdeValues :
        /\ Call(i.t) = target.t
        /\ \E f \in Followers : source = i.b \o f}

\* where the reader together with the look-ahead buffer stands
Standing == outcome.p - Len(outcome.buffer)

\* C26: decoding one value consumes exactly the bytes of that value's
\* encoding: after each successful decode the reader together with the
\* one-byte look-ahead buffer stands at the first byte after the value, and
\* the values decoded one after another skip no byte and see no byte twice,
\* also when a value is a NULL decoded as an absent optional.
C26_ExactlyConsumed ==
    Deserialized =>
        \A i \in ValuesAtFront :
            /\ Standing = i.n
            /\ outcome.v = i.v

\* C26, what the code does: a value without a NULL is consumed exactly
C26_WithoutNull ==
    Deserialized =>
        \A i \in ValuesAtFront :
            (\A j \in 1..i.n : i.b[j] # NULL) =>
                /\ Standing = i.n
                /\ outcome.buffer = <<>>
                /\ outcome.v = i.v

\* C26, what the code does: the NULL of an absent optional stays in the
\* look-ahead buffer, where the next peek sees it again; at the top level it
\* is still there when from_reader returns
C26_NullStays ==
    (Deserialized /\ target.t = Call("Option<u32>") /\ source[1] = NULL) =>
        /\ outcome.v = <<>>
        /\ outcome.buffer = <<NULL>>
        /\ Standing = 0

C26_WitnessExact ==
    /\ Deserialized
    /\ target.t = Call("Vec<Option<u32>>")
    /\ source = <<146, 1, 2, 1>>
    /\ outcome.v = <<<<W64(1)>>, <<W64(2)>>>>
    /\ Standing = 3

\* [None, Some(1)], written 92 C0 01, comes back as [None, None] with the
\* byte 01 unread
C26_WitnessSeenTwice ==
    /\ Deserialized
    /\ target.t = Call("Vec<Option<u32>>")
    /\ source = <<146, 192, 1>>
    /\ outcome.v = <<<<>>, <<>>>>
    /\ Standing = 2

C26_WitnessNullStays ==
    /\ Deserialized
    /\ target.t = Call("Option<u32>")
    /\ source = <<NULL>>
    /\ outcome.buffer = <<NULL>>

(***************************************************************************)
(* Properties of the maps built by the Builder                             *)
(***************************************************************************)

\* the declared size of the map in the source and where its entries begin
MapHeader == IF source[1] = MAP_8 THEN [n |-> source[2], p |-> 2]
             ELSE [n |-> source[1] % 16, p |-> 1]

RECURSIVE KeyThenValue(_, _, _)
\* n entries read from p as a String key followed by its value, in wire
\* order, the later of two entries with one key replacing the earlier
KeyThenValue(p, n, m) ==
    IF n = 0 THEN [res |-> "Ok", v |-> VMap(m)]
    ELSE LET key == parse(source, p)
             val == parse(source, key.p)
         IN  IF key.res # "Ok" \/ ~key.push \/ key.v.t # "String"
                 \/ val.res # "Ok" \/ ~val.push
             THEN [res |-> "Err", v |-> VNull]
             ELSE KeyThenValue(val.p, n - 1, BTreeInsert(m, key.v.n, val.v))

\* a map of the entry items has been given to the Builder
MapBuilt == target.t = "Value" /\ source \in BuilderMaps

\* C27: decoding a map of declared size n into a Value reads exactly n
\* entries, each as a String key followed by its value in wire order, and
\* yields the map that sends each key to the value that followed it (the later
\* entry of a repeated key wins); an entry whose key position holds something
\* other than a String is rejected with an error, whatever the type of the
\* entry's value.
C27_KeyThenValue ==
    MapBuilt =>
        LET ref == KeyThenValue(MapHeader.p, MapHeader.n, <<>>)
        IN  IF ref.res = "Ok"
            THEN outcome.res = "Ok" /\ outcome.v = ref.v
            ELSE outcome.res # "Ok"

RECURSIVE ValueThenKey(_, _, _)
\* n entries read from p as the value followed by its String key
ValueThenKey(p, n, m) ==
    IF n = 0 THEN [res |-> "Ok", v |-> VMap(m)]
    ELSE LET val == parse(source, p)
             key == parse(source, val.p)
         IN  IF val.res # "Ok" \/ ~val.push \/ key.res # "Ok" \/ ~key.push
                 \/ key.v.t # "String"
             THEN [res |-> "Err", v |-> VNull]
             ELSE ValueThenKey(key.p, n - 1, BTreeInsert(m, key.v.n, val.v))

\* C27, what the code does: the first item of each entry is taken as the
\* value and the second as its key, so an entry is accepted exactly when its
\* second item is a String
C27_ValueThenKey ==
    MapBuilt =>
        LET ref == ValueThenKey(MapHeader.p, MapHeader.n, <<>>)
        IN  IF ref.res = "Ok"
            THEN outcome.res = "Ok" /\ outcome.v = ref.v
            ELSE outcome.res # "Ok"

\* {"a": "x"} comes back as {"x": "a"}
C27_WitnessSwapped ==
    /\ MapBuilt
    /\ source = <<TINY_MAP_NIBBLE + 1, 129, 97, 129, 120>>
    /\ outcome.res = "Ok"
    /\ outcome.v = VMap(<< <<<<120>>, VString(<<97>>)>> >>)

\* {"a": 1} is refused
C27_WitnessRefused ==
    /\ MapBuilt
    /\ source = <<TINY_MAP_NIBBLE + 1, 129, 97, 1>>
    /\ outcome.res = "UnexpectedInput"

\* the entry 1: "x", whose key is no String, is accepted as {"x": 1}
C27_WitnessKeyNotString ==
    /\ MapBuilt
    /\ source = <<TINY_MAP_NIBBLE + 1, 1, 129, 120>>
    /\ outcome.res = "Ok"
    /\ outcome.v = VMap(<< <<<<120>>, VInteger(W64(1))>> >>)

(***************************************************************************)
(* Properties of the marker tables                                         *)
(***************************************************************************)

\* a byte has been classified
Classified == target.t \in {"marker.rs", "markers.rs"} /\ outcome.res = "Ok"

\* the exact markers of a table are pairwise distinct
Distinct(table) ==
    \A c \in ExactMarkers, d \in ExactMarkers : c # d => table[c] # table[d]

\* C30: every byte 0x00-0xFF belongs to at most one marker class and all
\* explicit marker constants are pairwise distinct, so the class the decoder
\* assigns to a byte does not depend on the order in which the classes are
\* tested.
C30_OneClass ==
    Classified =>
        /\ Cardinality(outcome.v) <= 1
        /\ Distinct(MarkerTable(target.t))

\* C30, what the code does: the table of marker.rs, which is the module the
\* codec is built with, keeps the classes apart, and which names the one
\* class of the byte
C30_MarkerRs ==
    (Classified /\ target.t = "marker.rs") =>
        /\ Cardinality(outcome.v) <= 1
        /\ Distinct(MarkerRs)
        /\ outcome.v = {} <=> which(source[1]) = Hex(source[1])
        /\ \A c \in outcome.v :
              which(source[1]) =
                  (IF c \in {"TINY_INT_POS", "TINY_INT_NEG"} THEN "TINY_INT" ELSE c)

\* C30, what the code does: in markers.rs the only bytes of two classes are
\* 0xD8 and 0xD9, where STRUCT_8 and STRUCT_16 repeat MAP_8 and MAP_16
C30_MarkersRs ==
    (Classified /\ target.t = "markers.rs") =>
        /\ source[1] \notin {216, 217} => Cardinality(outcome.v) <= 1
        /\ source[1] = 216 => outcome.v = {"MAP_8", "STRUCT_8"}
        /\ source[1] = 217 => outcome.v = {"MAP_16", "STRUCT_16"}
        /\ ~Distinct(MarkersRs)

C30_WitnessOneClass ==
    /\ Classified
    /\ target.t = "marker.rs"
    /\ source = <<220>>
    /\ outcome.v = {"STRUCT_8"}

C30_WitnessTwoClasses ==
    /\ Classified
    /\ target.t = "markers.rs"
    /\ source = <<216>>
    /\ outcome.v = {"MAP_8", "STRUCT_8"}

=============================================================================
